---- MODULE Spec2Model ----
(***************************************************************************)
(* Patch comparison pipeline of examples/zed_doc_prompt:                   *)
(*   internal/patch_parser.py    parse_file_hunks                          *)
(*   internal/name_extractor.py  extract_funcs_and_vars_from_hunk,         *)
(*                               collect_funcs_vars_from_files_map         *)
(*   evaluate.py                 score_patch_similarity                    *)
(*                                                                         *)
(* A Python str is a sequence of one-character strings, so that strip,     *)
(* splitlines, join and the regular expressions are computed character by  *)
(* character.  A Python float score is an exact rational <<num, den>> in   *)
(* lowest terms.  None is the record NoneVal.                              *)
(***************************************************************************)
EXTENDS Integers, Sequences, FiniteSets

(***************************************************************************)
(* Characters                                                              *)
(***************************************************************************)
\* str.strip() and \s: the whitespace characters of the modelled alphabet
Whitespace == {" ", "\t", "\n"}

\* str.splitlines(): the line boundary of the modelled alphabet
LineBreaks == {"\n"}

\* [A-Za-z_]
IdentStart ==
    {"a","b","c","d","e","f","g","h","i","j","k","l","m",
     "n","o","p","q","r","s","t","u","v","w","x","y","z",
     "A","B","C","D","E","F","G","H","I","J","K","L","M",
     "N","O","P","Q","R","S","T","U","V","W","X","Y","Z","_"}

\* \w
WordChars == IdentStart \cup {"0","1","2","3","4","5","6","7","8","9"}

(***************************************************************************)
(* str methods                                                             *)
(***************************************************************************)
\* s[i:] with a 1-based index
Drop(s, i) == SubSeq(s, i, Len(s))

\* s.startswith(prefix)
StartsWith(s, prefix) ==
    /\ Len(s) >= Len(prefix)
    /\ SubSeq(s, 1, Len(prefix)) = prefix

\* index of the first character of s at or after i that is not in set
\* (Len(s) + 1 when there is none)
RECURSIVE SkipSet(_, _, _)
SkipSet(s, i, set) ==
    IF i <= Len(s) /\ s[i] \in set THEN SkipSet(s, i + 1, set) ELSE i

\* index of the last character of s at or before i that is not whitespace
\* (0 when there is none)
RECURSIVE SkipBack(_, _)
SkipBack(s, i) ==
    IF i >= 1 /\ s[i] \in Whitespace THEN SkipBack(s, i - 1) ELSE i

\* s.strip()
Strip(s) ==
    LET lo == SkipSet(s, 1, Whitespace)
        hi == SkipBack(s, Len(s))
    IN  IF lo > hi THEN <<>> ELSE SubSeq(s, lo, hi)

\* index of the first character of s at or after i that is in set
\* (Len(s) + 1 when there is none)
RECURSIVE SkipTo(_, _, _)
SkipTo(s, i, set) ==
    IF i <= Len(s) /\ s[i] \notin set THEN SkipTo(s, i + 1, set) ELSE i

\* s.splitlines(): a final line break ends the last line and opens no new one
RECURSIVE SplitFrom(_, _, _)
SplitFrom(s, i, acc) ==
    IF i > Len(s) THEN acc
    ELSE LET e == SkipTo(s, i, LineBreaks)
         IN  SplitFrom(s, e + 1, Append(acc, SubSeq(s, i, e - 1)))

splitlines(s) == SplitFrom(s, 1, <<>>)

\* '\n'.join(parts)
RECURSIVE join(_)
join(parts) ==
    IF parts = <<>> THEN <<>>
    ELSE IF Len(parts) = 1 THEN parts[1]
    ELSE parts[1] \o <<"\n">> \o join(Tail(parts))

(***************************************************************************)
(* None                                                                    *)
(***************************************************************************)
NoneVal == [none |-> TRUE, str |-> <<>>]

Str(s) == [none |-> FALSE, str |-> s]

\* (x or "")
OrEmpty(x) == IF x.none THEN <<>> ELSE x.str

(***************************************************************************)
(* internal/patch_parser.py                                                *)
(***************************************************************************)
\* re.match(r'^\+\+\+\s+b/(.+)$', ln): the index at which group 1 starts,
\* 0 when the line does not match
HeaderMatch(ln) ==
    IF ~StartsWith(ln, <<"+", "+", "+">>) THEN 0
    ELSE LET k == SkipSet(ln, 4, Whitespace)
         IN  IF /\ k > 4
                /\ Len(ln) >= k + 2
                /\ ln[k] = "b"
                /\ ln[k + 1] = "/"
             THEN k + 2
             ELSE 0

\* m.group(1).strip()
HeaderPath(ln) == Strip(Drop(ln, HeaderMatch(ln)))

\* ln.startswith('+') or ln.startswith('-') or ln.startswith(' ')
IsBodyLine(ln) ==
    \/ StartsWith(ln, <<"+">>)
    \/ StartsWith(ln, <<"-">>)
    \/ StartsWith(ln, <<" ">>)

\* files[key] = value
DictSet(files, key, value) ==
    [p \in (DOMAIN files) \cup {key} |-> IF p = key THEN value ELSE files[p]]

\* the empty dict
EmptyDict == [p \in {} |-> <<>>]

\* the local variables of parse_file_hunks before the loop
ParseInit ==
    [files |-> EmptyDict, has_file |-> FALSE, current_file |-> <<>>,
     current_hunks |-> <<>>, hunk_buf |-> <<>>]

\* current_hunks after "if hunk_buf: current_hunks.append('\n'.join(hunk_buf))"
Flushed(st) ==
    IF st.hunk_buf # <<>>
    THEN Append(st.current_hunks, join(st.hunk_buf))
    ELSE st.current_hunks

\* the "+++ b/<path>" branch of the loop body
OnHeader(st, ln) ==
    [files |-> IF st.has_file
               THEN DictSet(st.files, st.current_file, Flushed(st))
               ELSE st.files,
     has_file |-> TRUE,
     current_file |-> HeaderPath(ln),
     current_hunks |-> <<>>,
     hunk_buf |-> <<>>]

\* the "@@" branch of the loop body
OnHunkHeader(st, ln) ==
    [st EXCEPT !.current_hunks = Flushed(st), !.hunk_buf = <<ln>>]

\* OnOtherLine closing the current hunk at a line that is not a body line
OnOtherLine_EndsHunk(st, ln) ==
    IF st.has_file /\ IsBodyLine(ln)
    THEN [st EXCEPT !.hunk_buf = Append(st.hunk_buf, ln)]
    ELSE [st EXCEPT !.current_hunks = Flushed(st), !.hunk_buf = <<>>]

\* the last "if" of the loop body
OnOtherLine(st, ln) ==
    IF st.has_file /\ IsBodyLine(ln)
    THEN [st EXCEPT !.hunk_buf = Append(st.hunk_buf, ln)]
    ELSE st

\* one iteration of "for ln in lines"
ParseStep(st, ln) ==
    IF HeaderMatch(ln) # 0 THEN OnHeader(st, ln)
    ELSE IF StartsWith(ln, <<"@", "@">>) THEN OnHunkHeader(st, ln)
    ELSE OnOtherLine(st, ln)

RECURSIVE ParseLoop(_, _, _)
ParseLoop(lines, i, st) ==
    IF i > Len(lines) THEN st
    ELSE ParseLoop(lines, i + 1, ParseStep(st, lines[i]))

\* ParseFinal storing the hunk list even when no file header was seen
ParseFinal_Always(st) == DictSet(st.files, st.current_file, Flushed(st))

\* "finalize last"
ParseFinal(st) ==
    IF st.has_file
    THEN DictSet(st.files, st.current_file, Flushed(st))
    ELSE st.files

parse_file_hunks(diff) ==
    IF diff = <<>> THEN EmptyDict
    ELSE ParseFinal(ParseLoop(splitlines(diff), 1, ParseInit))

(***************************************************************************)
(* internal/name_extractor.py                                              *)
(***************************************************************************)
NoMatch == [ok |-> FALSE, name |-> <<>>]

\* ^\s*KEYWORD\s+([A-Za-z_]\w*)\s*[CLOSERS] matched at the start of content:
\* group 1, or NoMatch
KeywordDecl(content, keyword, closers) ==
    LET i == SkipSet(content, 1, Whitespace)
        j == SkipSet(content, i + Len(keyword), Whitespace)
        k == SkipSet(content, j + 1, WordChars)
        m == SkipSet(content, k, Whitespace)
    IN  IF /\ StartsWith(Drop(content, i), keyword)
           /\ j > i + Len(keyword)
           /\ j <= Len(content)
           /\ content[j] \in IdentStart
           /\ m <= Len(content)
           /\ content[m] \in closers
        THEN [ok |-> TRUE, name |-> SubSeq(content, j, k - 1)]
        ELSE NoMatch

\* re.compile(r'^\s*def\s+([A-Za-z_]\w*)\s*\(')
pattern_def(content) == KeywordDecl(content, <<"d", "e", "f">>, {"("})

\* re.compile(r'^\s*class\s+([A-Za-z_]\w*)\s*[:\(]')
pattern_class(content) ==
    KeywordDecl(content, <<"c", "l", "a", "s", "s">>, {":", "("})

\* pattern_assign without its "^": the first name followed by "=" anywhere
pattern_assign_Unanchored(content) ==
    LET Hit(i) == /\ content[i] \in IdentStart
                  /\ LET m == SkipSet(content, SkipSet(content, i + 1, WordChars),
                                      Whitespace)
                     IN  m <= Len(content) /\ content[m] = "="
        hits == {i \in 1..Len(content) : Hit(i)}
    IN  IF hits = {} THEN NoMatch
        ELSE LET i == CHOOSE x \in hits : \A y \in hits : x <= y
             IN  [ok |-> TRUE,
                  name |-> SubSeq(content, i,
                                  SkipSet(content, i + 1, WordChars) - 1)]

\* re.compile(r'^\s*([A-Za-z_]\w*)\s*=')
pattern_assign(content) ==
    LET i == SkipSet(content, 1, Whitespace)
        k == SkipSet(content, i + 1, WordChars)
        m == SkipSet(content, k, Whitespace)
    IN  IF /\ i <= Len(content)
           /\ content[i] \in IdentStart
           /\ m <= Len(content)
           /\ content[m] = "="
        THEN [ok |-> TRUE, name |-> SubSeq(content, i, k - 1)]
        ELSE NoMatch

\* content = ln[1:] if ln.startswith(('+', '-', ' ')) else ln
LineContent(ln) == IF IsBodyLine(ln) THEN Drop(ln, 2) ELSE ln

\* the loop body of extract_funcs_and_vars_from_hunk: first match wins
ExtractLine(acc, ln) ==
    LET content == LineContent(ln)
    IN  IF pattern_def(content).ok
        THEN [acc EXCEPT !.funcs = @ \cup {pattern_def(content).name}]
        ELSE IF pattern_class(content).ok
        THEN [acc EXCEPT !.funcs = @ \cup {pattern_class(content).name}]
        ELSE IF pattern_assign(content).ok
        THEN [acc EXCEPT !.vars = @ \cup {pattern_assign(content).name}]
        ELSE acc

RECURSIVE ExtractLoop(_, _, _)
ExtractLoop(lines, i, acc) ==
    IF i > Len(lines) THEN acc
    ELSE ExtractLoop(lines, i + 1, ExtractLine(acc, lines[i]))

extract_funcs_and_vars_from_hunk(hunk) ==
    ExtractLoop(splitlines(hunk), 1, [funcs |-> {}, vars |-> {}])

\* F and V: the union over every hunk of every file
collect_funcs_vars_from_files_map(files_map) ==
    LET hunks == UNION {{files_map[p][i] : i \in 1..Len(files_map[p])} :
                        p \in DOMAIN files_map}
    IN  [funcs |-> UNION {extract_funcs_and_vars_from_hunk(h).funcs :
                          h \in hunks},
         vars |-> UNION {extract_funcs_and_vars_from_hunk(h).vars :
                         h \in hunks}]

(***************************************************************************)
(* float arithmetic as exact rationals <<num, den>>, den >= 1              *)
(***************************************************************************)
RECURSIVE GCD(_, _)
GCD(x, y) == IF y = 0 THEN x ELSE GCD(y, x % y)

\* n / d
Ratio(n, d) ==
    LET c == GCD(n, d)
    IN  IF n = 0 THEN <<0, 1>> ELSE <<n \div c, d \div c>>

Zero == <<0, 1>>

One == <<1, 1>>

\* x <= y
Leq(x, y) == x[1] * y[2] <= y[1] * x[2]

\* min(x, y) and max(x, y)
MinR(x, y) == IF Leq(x, y) THEN x ELSE y

MaxR(x, y) == IF Leq(x, y) THEN y ELSE x

(***************************************************************************)
(* evaluate.py: score_patch_similarity                                     *)
(***************************************************************************)
\* g_files.get(p, [])
DictGet(files, p) == IF p \in DOMAIN files THEN files[p] ELSE <<>>

\* if g_hunks and a_hunks and g_hunks == a_hunks
PathMatches(gf, af, p) ==
    /\ DictGet(gf, p) # <<>>
    /\ DictGet(af, p) # <<>>
    /\ DictGet(gf, p) = DictGet(af, p)

\* MatchCount counting a matching path once for each side
MatchCount_BothSides(gf, af) ==
    Cardinality({p \in DOMAIN gf : PathMatches(gf, af, p)})
        + Cardinality({p \in DOMAIN af : PathMatches(gf, af, p)})

\* match_count after the loop over all_paths
MatchCount(gf, af) ==
    Cardinality({p \in (DOMAIN gf) \cup (DOMAIN af) : PathMatches(gf, af, p)})

\* FallbackFileScore without the comparison of the texts
FallbackFileScore_Never(gs, as) == Zero

\* file_score of the branch taken when both maps are empty
FallbackFileScore(gs, as) ==
    IF Strip(gs) = Strip(as) /\ gs # <<>> THEN One ELSE Zero

\* UnionFileScore as a fraction of the files of the generated patch only
UnionFileScore_GeneratedOnly(gf, af) ==
    IF DOMAIN gf = {} THEN Zero
    ELSE Ratio(MatchCount(gf, af), Cardinality(DOMAIN gf))

\* file_score of the else branch: match_count / len(all_paths)
UnionFileScore(gf, af) ==
    LET all_paths == (DOMAIN gf) \cup (DOMAIN af)
    IN  IF all_paths = {} THEN Zero
        ELSE Ratio(MatchCount(gf, af), Cardinality(all_paths))

\* BothEmpty without the early return
BothEmpty_Never(gs, as) == FALSE

\* if not g and not a
BothEmpty(gs, as) == gs = <<>> /\ as = <<>>

\* if not g_files and not a_files
NoFiles(gf, af) == gf = EmptyDict /\ af = EmptyDict

\* file_score
FileScore(gs, as, gf, af) ==
    IF NoFiles(gf, af)
    THEN FallbackFileScore(gs, as)
    ELSE UnionFileScore(gf, af)

\* jaccard dividing by the size of the first set instead of the union
jaccard_OverFirst(s1, s2) ==
    IF s1 = {} /\ s2 = {} THEN One
    ELSE IF s1 = {} \/ s2 = {} THEN Zero
    ELSE Ratio(Cardinality(s1 \cap s2), Cardinality(s1))

\* jaccard testing "one side empty" before "both sides empty"
jaccard_EmptyIsZero(s1, s2) ==
    IF s1 = {} \/ s2 = {} THEN Zero
    ELSE Ratio(Cardinality(s1 \cap s2), Cardinality(s1 \cup s2))

jaccard(s1, s2) ==
    IF s1 = {} /\ s2 = {} THEN One
    ELSE IF s1 = {} \/ s2 = {} THEN Zero
    ELSE IF Cardinality(s1 \cup s2) # 0
         THEN Ratio(Cardinality(s1 \cap s2), Cardinality(s1 \cup s2))
         ELSE Zero

\* Combined with the weight of the function score given to the variable score
Combined_VarWeight(fs, fn, vs) ==
    Ratio(50 * fs[1] * fn[2] * vs[2] + 35 * fn[1] * fs[2] * vs[2]
            + 35 * vs[1] * fs[2] * fn[2],
          100 * fs[2] * fn[2] * vs[2])

\* combined = 0.5 * file_score + 0.35 * func_score + 0.15 * var_score
Combined(fs, fn, vs) ==
    Ratio(50 * fs[1] * fn[2] * vs[2] + 35 * fn[1] * fs[2] * vs[2]
            + 15 * vs[1] * fs[2] * fn[2],
          100 * fs[2] * fn[2] * vs[2])

\* max(0.0, min(1.0, float(combined)))
Clamp(x) == MaxR(Zero, MinR(One, x))

\* the three component scores of one call that gets past the early return
Components(generated_arg, actual_arg) ==
    LET gs == Strip(OrEmpty(generated_arg))
        as == Strip(OrEmpty(actual_arg))
        gf == parse_file_hunks(gs)
        af == parse_file_hunks(as)
        gi == collect_funcs_vars_from_files_map(gf)
        ai == collect_funcs_vars_from_files_map(af)
    IN  [file |-> FileScore(gs, as, gf, af),
         func |-> jaccard(gi.funcs, ai.funcs),
         var |-> jaccard(gi.vars, ai.vars)]

\* the value returned by one call
score_patch_similarity(generated_arg, actual_arg) ==
    LET c == Components(generated_arg, actual_arg)
    IN  IF BothEmpty(Strip(OrEmpty(generated_arg)), Strip(OrEmpty(actual_arg)))
        THEN Zero
        ELSE Clamp(Combined(c.file, c.func, c.var))

(***************************************************************************)
(* Inputs of one call                                                      *)
(***************************************************************************)
\* largest number of blocks of a text paired with its variants
MaxBlocks == 3

\* largest number of blocks of a text scored against itself or against an
\* empty input
MaxSolo == 4

\* largest number of blocks of the texts paired with each other
MaxCross == 2

\* the lines the input texts are made of
HdrA == <<"+", "+", "+", " ", "b", "/", "a">>

HdrB == <<"+", "+", "+", " ", "b", "/", "b">>

OldB == <<"-", "-", "-", " ", "a", "/", "b">>

At1 == <<"@", "@", " ", "1">>

At2 == <<"@", "@", " ", "2">>

DefF == <<"+", "d", "e", "f", " ", "f", "(">>

DefG == <<"-", "d", "e", "f", " ", "g", "(">>

AsgV == <<" ", "v", " ", "=", " ", "1">>

AsgW == <<"+", "w", " ", "=", " ", "2">>

Idx == <<"i", "n", "d", "e", "x">>

\* the pieces of a diff: a file header, the two-line header of a following
\* file, two hunks, a line the parser ignores, a body line without hunk header
Blocks ==
    << <<HdrA>>, <<OldB, HdrB>>, <<At1, DefF>>, <<At2, DefG, AsgV>>,
       <<Idx>>, <<AsgW>> >>

\* the sequences of at most n block numbers
BlockSeqs(n) == UNION {[1..k -> 1..Len(Blocks)] : k \in 0..n}

RECURSIVE LinesOf(_)
LinesOf(bs) == IF bs = <<>> THEN <<>> ELSE Blocks[Head(bs)] \o LinesOf(Tail(bs))

\* the text of a block sequence
TextOf(bs) == join(LinesOf(bs))

\* bs without its i-th block
Without(bs, i) == SubSeq(bs, 1, i - 1) \o SubSeq(bs, i + 1, Len(bs))

\* bs with its i-th and (i+1)-th blocks exchanged
Swapped(bs, i) ==
    [k \in 1..Len(bs) |-> IF k = i THEN bs[i + 1]
                          ELSE IF k = i + 1 THEN bs[i] ELSE bs[k]]

\* the block sequences one edit away from bs
Variants(bs) ==
    {bs}
    \cup {Without(bs, i) : i \in 1..Len(bs)}
    \cup {Swapped(bs, i) : i \in 1..(Len(bs) - 1)}
    \cup {[bs EXCEPT ![i] = b] : i \in 1..Len(bs), b \in 1..Len(Blocks)}
    \cup {Append(bs, b) : b \in 1..Len(Blocks)}

\* None, the empty string and a whitespace-only string
EmptyInputs == {NoneVal, Str(<<>>), Str(<<" ", "\n", "\t">>)}

\* s with surrounding whitespace
Padded(s) == <<" ", "\n">> \o s \o <<"\n">>

\* the texts paired with each other: made of file headers and hunks
CrossTexts ==
    {TextOf(bs) : bs \in UNION {[1..k -> {1, 2, 3, 4}] : k \in 0..MaxCross}}

\* the generated diff of the foo.py / baz.py scenario
FooSection ==
    << <<"-", "-", "-", " ", "a", "/", "f", "o", "o", ".", "p", "y">>,
       <<"+", "+", "+", " ", "b", "/", "f", "o", "o", ".", "p", "y">>,
       <<"@", "@", " ", "-", "1", " ", "+", "1", " ", "@", "@">>,
       <<"+", "d", "e", "f", " ", "b", "a", "r", "(", ")", ":", " ", ".", ".", ".">> >>

\* the bodies of the baz.py hunk the scenario is tried with
BazBodies ==
    { <<"+", "p", "r", "i", "n", "t", "(", "1", ")">>,
      <<" ", "y", " ", "=", " ", "2">>,
      <<"-", "d", "e", "f", " ", "b", "a", "r", "(", ")", ":", " ", ".", ".", ".">> }

BazSection(body) ==
    << <<"-", "-", "-", " ", "a", "/", "b", "a", "z", ".", "p", "y">>,
       <<"+", "+", "+", " ", "b", "/", "b", "a", "z", ".", "p", "y">>,
       <<"@", "@", " ", "-", "2", " ", "+", "2", " ", "@", "@">>,
       body >>

\* the "diff --git" line git writes before each file section
GitLine == <<"d", "i", "f", "f", " ", "-", "-", "g", "i", "t">>

WithGitLine(section, git) == IF git THEN <<GitLine>> \o section ELSE section

\* the actual diff of the scenario: the foo.py section and a baz.py section
ScenarioActual(foo_first, body, git) ==
    IF foo_first
    THEN join(WithGitLine(FooSection, git) \o WithGitLine(BazSection(body), git))
    ELSE join(WithGitLine(BazSection(body), git) \o WithGitLine(FooSection, git))

ScenarioPairs ==
    {<<Str(join(FooSection)), Str(ScenarioActual(o, b, d))>> :
        o \in BOOLEAN, b \in BazBodies, d \in BOOLEAN}

(***************************************************************************)
(* One call of score_patch_similarity(generated, actual)                   *)
(***************************************************************************)
VARIABLES
    generated,      \* the argument generated
    actual,         \* the argument actual
    pc,             \* the position of the call
    g, a,           \* the trimmed inputs
    g_files,        \* parse_file_hunks(g)
    a_files,        \* parse_file_hunks(a)
    file_score, func_score, var_score,
    result,         \* the returned value
    parse_calls,    \* number of calls of parse_file_hunks made so far
    call_fn,        \* the function of a direct call
    call_arg,       \* its argument
    call_ret,       \* its return value
    call_pc,        \* "called" before the call returns, "returned" after
    program,        \* where program_path points
    disk,           \* what is on disk at results_dir
    pr_ids,         \* the argument pr_ids
    num_prs,        \* the argument num_prs
    ev_pc,          \* the position of evaluate_prompt_program
    pr_numbers,     \* the cases of the run
    doc_text,       \* the documentation generated once per run
    idx,            \* the position of the loop in pr_numbers
    actual_diff,    \* the diff fetched for the current case
    gen_diff,       \* the patch generated for the current case
    similarity_scores,
    errors,
    calls,          \* the calls made so far, in order
    written,        \* the files written so far
    metrics,        \* the metrics dict
    CACHE_DIR,      \* the directory of the cache, chosen at import
    CACHE_FORCE,    \* whether FORCE_PR_FETCH asks for a refetch
    requests,       \* whether the requests library could be imported
    cache,          \* what is at CACHE_DIR / pr_<n>.json, for each n
    fetched,        \* per n, the triples fetched and written so far
    in_flight,      \* per caller, where its call of fetch_pr_details is
    last_fetch,     \* the last call of fetch_pr_details
    fetch_count,    \* the calls of fetch_pr_details made so far
    res,            \* the content of the reply of the model
    all_paths,      \* the argument all_paths
    picked,         \* what ask_llm_to_select_files returned
    ask_pc          \* "called" before the call returns, "returned" after

score_vars == <<generated, actual, pc, g, a, g_files, a_files,
                file_score, func_score, var_score, result, parse_calls>>

call_vars == <<call_fn, call_arg, call_ret, call_pc>>

eval_vars == <<program, disk, pr_ids, num_prs, ev_pc, pr_numbers, doc_text, idx,
               actual_diff, gen_diff, similarity_scores, errors, calls,
               written, metrics>>

fetch_vars == <<CACHE_DIR, CACHE_FORCE, requests, cache, fetched, in_flight,
                last_fetch, fetch_count>>

select_vars == <<res, all_paths, picked, ask_pc>>

vars == <<score_vars, call_vars, eval_vars, fetch_vars, select_vars>>

\* fetcher.py is not in use
NoFetch ==
    /\ CACHE_DIR = "none"
    /\ CACHE_FORCE = FALSE
    /\ requests = FALSE
    /\ cache = <<>>
    /\ fetched = <<>>
    /\ in_flight = <<>>
    /\ last_fetch = <<>>
    /\ fetch_count = 0

\* no call of ask_llm_to_select_files is under way
NoSelect ==
    /\ res = NoneVal
    /\ all_paths = <<>>
    /\ picked = <<>>
    /\ ask_pc = "idle"

\* metrics = {"public": {}, "private": {}, "combined_score": 0.0, ...}
InitialMetrics ==
    [per_pr_similarity |-> <<>>, combined_score |-> Zero, errors |-> <<>>]

\* evaluate_prompt_program is not running
NoEval ==
    /\ program = [is_absolute |-> TRUE, exists |-> TRUE, alt_exists |-> FALSE]
    /\ disk = "dir"
    /\ pr_ids = <<>>
    /\ num_prs = 0
    /\ ev_pc = "idle"
    /\ pr_numbers = <<>>
    /\ doc_text = <<>>
    /\ idx = 0
    /\ actual_diff = NoneVal
    /\ gen_diff = <<>>
    /\ similarity_scores = <<>>
    /\ errors = <<>>
    /\ calls = <<>>
    /\ written = {}
    /\ metrics = InitialMetrics

\* no direct call is made
NoCall ==
    /\ call_fn = "none"
    /\ call_arg = NoneVal
    /\ call_ret = NoneVal
    /\ call_pc = "idle"

\* a text against a text one edit away from it
VariantInput ==
    \E bs \in BlockSeqs(MaxBlocks) : \E v \in Variants(bs) :
        /\ generated = Str(TextOf(bs))
        /\ actual = Str(TextOf(v))

\* a text against itself, against the empty string, and the empty string
\* against it
SoloInput ==
    \E bs \in BlockSeqs(MaxSolo) :
        \E other \in {Str(TextOf(bs)), Str(<<>>)} :
            \/ generated = Str(TextOf(bs)) /\ actual = other
            \/ generated = other /\ actual = Str(TextOf(bs))

\* every pair of short texts, and a short text with surrounding whitespace
\* against itself
CrossInput ==
    \E x \in CrossTexts :
        \/ generated = Str(x) /\ actual \in {Str(y) : y \in CrossTexts}
        \/ generated = Str(Padded(x)) /\ actual = Str(x)

\* None, the empty string or whitespace on one side or on both
EmptyInput ==
    \E e \in EmptyInputs :
        \E other \in EmptyInputs \cup {Str(x) : x \in CrossTexts} :
            \/ generated = e /\ actual = other
            \/ generated = other /\ actual = e

\* the foo.py / baz.py scenario
ScenarioInput ==
    \E pair \in ScenarioPairs : generated = pair[1] /\ actual = pair[2]

\* locals hold a placeholder until the call assigns them
Init ==
    /\ \/ VariantInput
       \/ SoloInput
       \/ CrossInput
       \/ EmptyInput
       \/ ScenarioInput
    /\ pc = "start"
    /\ g = <<>>
    /\ a = <<>>
    /\ g_files = EmptyDict
    /\ a_files = EmptyDict
    /\ file_score = Zero
    /\ func_score = Zero
    /\ var_score = Zero
    /\ result = Zero
    /\ parse_calls = 0
    /\ NoCall
    /\ NoEval
    /\ NoFetch
    /\ NoSelect

\* g = (generated or "").strip(); a = (actual or "").strip()
Trim ==
    /\ pc = "start"
    /\ g' = Strip(OrEmpty(generated))
    /\ a' = Strip(OrEmpty(actual))
    /\ pc' = "trimmed"
    /\ UNCHANGED <<generated, actual, g_files, a_files, file_score,
                   func_score, var_score, result, parse_calls>>
    /\ UNCHANGED <<call_vars, eval_vars, fetch_vars, select_vars>>

\* if not g and not a: return 0.0
ReturnEmpty ==
    /\ pc = "trimmed"
    /\ BothEmpty(g, a)
    /\ result' = Zero
    /\ pc' = "done"
    /\ UNCHANGED <<generated, actual, g, a, g_files, a_files, file_score,
                   func_score, var_score, parse_calls>>
    /\ UNCHANGED <<call_vars, eval_vars, fetch_vars, select_vars>>

\* g_files = parse_file_hunks(g); a_files = parse_file_hunks(a)
Parse ==
    /\ pc = "trimmed"
    /\ ~BothEmpty(g, a)
    /\ g_files' = parse_file_hunks(g)
    /\ a_files' = parse_file_hunks(a)
    /\ parse_calls' = parse_calls + 2
    /\ pc' = "parsed"
    /\ UNCHANGED <<generated, actual, g, a, file_score, func_score,
                   var_score, result>>
    /\ UNCHANGED <<call_vars, eval_vars, fetch_vars, select_vars>>

\* file_score when neither side has a file section
FileFallback ==
    /\ pc = "parsed"
    /\ NoFiles(g_files, a_files)
    /\ file_score' = FallbackFileScore(g, a)
    /\ pc' = "file_scored"
    /\ UNCHANGED <<generated, actual, g, a, g_files, a_files, func_score,
                   var_score, result, parse_calls>>
    /\ UNCHANGED <<call_vars, eval_vars, fetch_vars, select_vars>>

\* file_score over the union of the paths
FileUnion ==
    /\ pc = "parsed"
    /\ ~NoFiles(g_files, a_files)
    /\ file_score' = UnionFileScore(g_files, a_files)
    /\ pc' = "file_scored"
    /\ UNCHANGED <<generated, actual, g, a, g_files, a_files, func_score,
                   var_score, result, parse_calls>>
    /\ UNCHANGED <<call_vars, eval_vars, fetch_vars, select_vars>>

\* func_score and var_score
IdentScores ==
    /\ pc = "file_scored"
    /\ LET gi == collect_funcs_vars_from_files_map(g_files)
           ai == collect_funcs_vars_from_files_map(a_files)
       IN  /\ func_score' = jaccard(gi.funcs, ai.funcs)
           /\ var_score' = jaccard(gi.vars, ai.vars)
    /\ pc' = "ident_scored"
    /\ UNCHANGED <<generated, actual, g, a, g_files, a_files, file_score,
                   result, parse_calls>>
    /\ UNCHANGED <<call_vars, eval_vars, fetch_vars, select_vars>>

\* combined, clamped and returned
Combine ==
    /\ pc = "ident_scored"
    /\ result' = Clamp(Combined(file_score, func_score, var_score))
    /\ pc' = "done"
    /\ UNCHANGED <<generated, actual, g, a, g_files, a_files, file_score,
                   func_score, var_score, parse_calls>>
    /\ UNCHANGED <<call_vars, eval_vars, fetch_vars, select_vars>>

Next ==
    \/ Trim
    \/ ReturnEmpty
    \/ Parse
    \/ FileFallback
    \/ FileUnion
    \/ IdentScores
    \/ Combine

Spec == Init /\ [][Next]_vars

\* the positions at which the file score has been computed
FileScored == pc \in {"file_scored", "ident_scored"} \/ (pc = "done" /\ parse_calls > 0)

\* the positions at which the maps have been parsed
Parsed == pc = "parsed" \/ FileScored

(***************************************************************************)
(* One direct call of parse_file_hunks(diff) or of                         *)
(* extract_funcs_and_vars_from_hunk(hunk)                                  *)
(***************************************************************************)
MaxHunkLines == 2

MaxBlank == 2

MaxDiffBlocks == 2

DefHandle ==
    <<"+", "d", "e", "f", " ", "h", "a", "n", "d", "l", "e", "_", "r", "e",
      "q", "u", "e", "s", "t", "(", "s", "e", "l", "f", ",", " ", "r", "e",
      "q", ")", ":">>

AsgTimeout ==
    <<"+", " ", " ", " ", " ", "t", "i", "m", "e", "o", "u", "t", " ", "=",
      " ", "3", "0">>

IfTimeout ==
    <<"+", " ", " ", " ", " ", "i", "f", " ", "t", "i", "m", "e", "o", "u",
      "t", " ", "=", "=", " ", "3", "0", ":">>

CmpTimeout ==
    <<"+", "t", "i", "m", "e", "o", "u", "t", " ", "=", "=", " ", "3", "0">>

ClassFoo ==
    <<"-", "c", "l", "a", "s", "s", " ", "F", "o", "o", "(", "B", "a", "s",
      "e", ")", ":">>

AsgBare ==
    <<"x", "=", "1">>

DefSpaced ==
    <<" ", "d", "e", "f", " ", " ", "r", "u", "n", " ", "(">>

AsgDefx ==
    <<"+", "d", "e", "f", "x", " ", "=", " ", "1">>

HunkHead ==
    <<"@", "@", " ", "-", "1", " ", "+", "1", " ", "@", "@">>

\* the lines a hunk is made of
ExtractorLines ==
    {DefHandle, AsgTimeout, IfTimeout, CmpTimeout, ClassFoo, AsgBare,
     DefSpaced, AsgDefx, HunkHead}

\* the line sequences of at most n lines
LineSeqs(n) == UNION {[1..k -> ExtractorLines] : k \in 0..n}

\* the hunk texts given to the extractor
HunkTexts == {join(ls) : ls \in LineSeqs(MaxHunkLines)}

\* the strings of at most n whitespace characters
BlankTexts(n) == UNION {[1..k -> Whitespace] : k \in 0..n}

\* the diffs given to the parser: None, blank strings, and texts that are
\* not trimmed
ParserInputs ==
    {NoneVal}
    \cup {Str(w) : w \in BlankTexts(MaxBlank)}
    \cup {Str(TextOf(bs)) : bs \in BlockSeqs(MaxDiffBlocks)}
    \cup {Str(Padded(TextOf(bs))) : bs \in BlockSeqs(MaxDiffBlocks)}

\* the score machine at rest
NoScoreCall ==
    /\ generated = NoneVal
    /\ actual = NoneVal
    /\ pc = "idle"
    /\ g = <<>>
    /\ a = <<>>
    /\ g_files = EmptyDict
    /\ a_files = EmptyDict
    /\ file_score = Zero
    /\ func_score = Zero
    /\ var_score = Zero
    /\ result = Zero
    /\ parse_calls = 0

\* the return value holds a placeholder until the call returns
InitCall ==
    /\ \/ /\ call_fn = "parse_file_hunks"
          /\ call_arg \in ParserInputs
          /\ call_ret = EmptyDict
       \/ /\ call_fn = "extract_funcs_and_vars_from_hunk"
          /\ call_arg \in {Str(h) : h \in HunkTexts}
          /\ call_ret = [funcs |-> {}, vars |-> {}]
    /\ call_pc = "called"
    /\ NoScoreCall
    /\ NoEval
    /\ NoFetch
    /\ NoSelect

\* what parse_file_hunks returns for an argument that may be None:
\* "if not diff: return files" covers None as well as the empty string
ParseResult(diff) ==
    IF diff.none THEN EmptyDict ELSE parse_file_hunks(diff.str)

\* the map returned by parse_file_hunks(diff)
CallParse ==
    /\ call_fn = "parse_file_hunks"
    /\ call_pc = "called"
    /\ call_ret' = ParseResult(call_arg)
    /\ call_pc' = "returned"
    /\ UNCHANGED <<call_fn, call_arg>>
    /\ UNCHANGED <<score_vars, eval_vars, fetch_vars, select_vars>>

\* the pair returned by extract_funcs_and_vars_from_hunk(hunk)
CallExtract ==
    /\ call_fn = "extract_funcs_and_vars_from_hunk"
    /\ call_pc = "called"
    /\ call_ret' = extract_funcs_and_vars_from_hunk(call_arg.str)
    /\ call_pc' = "returned"
    /\ UNCHANGED <<call_fn, call_arg>>
    /\ UNCHANGED <<score_vars, eval_vars, fetch_vars, select_vars>>

NextCall ==
    \/ CallParse
    \/ CallExtract

SpecCall == InitCall /\ [][NextCall]_vars

\* the extractor has returned
Extracted == call_fn = "extract_funcs_and_vars_from_hunk" /\ call_pc = "returned"

\* the parser has returned
ParserReturned == call_fn = "parse_file_hunks" /\ call_pc = "returned"

(***************************************************************************)
(* evaluate.py: one run of evaluate_prompt_program(program_path,           *)
(* results_dir, num_prs, seed, pr_ids)                                     *)
(***************************************************************************)
MaxCases == 2

\* the case identifiers
PrNumbers == {1, 2}

\* the lists of at most n case identifiers in which no identifier follows
\* itself
CaseLists(n) ==
    {l \in UNION {[1..k -> PrNumbers] : k \in 0..n} :
        \A i \in 1..(Len(l) - 1) : l[i] # l[i + 1]}

\* xs[:n], as in pr_ids[:num_prs], nums[:limit] and pr_numbers[:limit]
Prefix(xs, n) ==
    LET stop == IF n < 0 THEN Len(xs) + n ELSE n
    IN  SubSeq(xs, 1, IF stop < 0 THEN 0
                      ELSE IF Len(xs) < stop THEN Len(xs) ELSE stop)

\* what fetch_closed_pr_numbers(limit) can return: nums[:limit] of the list
\* of its cache file or pr_numbers[:limit] of the list it collected
ListedCases(limit) == {Prefix(l, limit) : l \in {<<>>, <<2>>, <<2, 1>>}}

\* the diffs fetch_pr_details returns
ActualTexts == {Str(TextOf(<<1, 3>>)), Str(TextOf(<<1, 3, 4>>))}

\* the patches generate_patch_from_doc_and_pr returns
GenTexts == {<<>>, TextOf(<<1, 3>>)}

\* the messages of the exceptions a fetch raises
FetchFailures == {"http error 500", "fetch failed"}

\* x + y
AddR(x, y) == Ratio(x[1] * y[2] + y[1] * x[2], x[2] * y[2])

\* sum(similarity_scores)
RECURSIVE SumR(_)
SumR(xs) == IF xs = <<>> THEN Zero ELSE AddR(Head(xs), SumR(Tail(xs)))

\* Mean dividing by the number of cases of the run instead of the number of
\* scores
Mean_OverCases(xs) ==
    LET n == IF Len(pr_numbers) > 1 THEN Len(pr_numbers) ELSE 1
    IN  Ratio(SumR(xs)[1], SumR(xs)[2] * n)

\* sum(similarity_scores) / max(len(similarity_scores), 1)
Mean(xs) ==
    LET n == IF Len(xs) > 1 THEN Len(xs) ELSE 1
    IN  Ratio(SumR(xs)[1], SumR(xs)[2] * n)

\* a call made by the run: the function, the case it is made for (0 for a
\* call of the run), how it ended, and the texts it returned (a fetch, a
\* generation) or was given (a scoring)
Call(fn, n, outcome, first, second) ==
    [fn |-> fn, id |-> n, outcome |-> outcome, texts |-> <<first, second>>]

\* f"pr_{prn}: {e}"
CaseError(n, e) == <<"pr_", n, ": ", e>>

\* f"pr_{prn}: 403 rate limit exceeded (use GITHUB_TOKEN or rely on cache)"
RateLimitError(n) == CaseError(n, "403 rate limit exceeded")

\* f"failed_list_prs: {e}"
ListError(e) == <<"failed_list_prs", ": ", e>>

\* Resolved without the check of line 161
Resolved_Unchecked(prog) == TRUE

\* p.exists() after the lookup relative to the directory of evaluate.py
Resolved(prog) ==
    IF ~prog.is_absolute /\ ~prog.exists THEN prog.alt_exists ELSE prog.exists

\* the case of the current iteration
prn == pr_numbers[idx]

\* pr_dir.mkdir(parents=True, exist_ok=True) raises when results_dir or
\* pr_dir is an existing file
MkdirFails(n) ==
    disk = "results_dir is a file" \/ (disk = "pr_2 is a file" /\ n = 2)

\* Path(results_dir).mkdir(parents=True, exist_ok=True) raises when
\* results_dir is an existing file
ResultsDirFails == disk = "results_dir is a file"

\* program_path: absolute or not, whether it exists as given and whether it
\* exists under the directory of evaluate.py, which for an absolute path is
\* the same file
ProgramPaths ==
    {r \in [is_absolute : BOOLEAN, exists : BOOLEAN, alt_exists : BOOLEAN] :
        r.is_absolute => r.alt_exists = r.exists}

\* every case list with a program that is where the path says, and every
\* program path with one case
InitEval ==
    /\ \/ /\ program = [is_absolute |-> TRUE, exists |-> TRUE,
                        alt_exists |-> FALSE]
          /\ pr_ids \in CaseLists(MaxCases)
          /\ num_prs \in {-1, 0, 1, MaxCases}
          /\ disk \in {"absent", "results_dir is a file", "pr_2 is a file"}
       \/ /\ program \in ProgramPaths
          /\ pr_ids = <<1>>
          /\ num_prs = 1
          /\ disk \in {"absent", "dir"}
    /\ ev_pc = "start"
    /\ pr_numbers = <<>>
    /\ doc_text = <<>>
    /\ idx = 0
    /\ actual_diff = NoneVal
    /\ gen_diff = <<>>
    /\ similarity_scores = <<>>
    /\ errors = <<>>
    /\ calls = <<>>
    /\ written = {}
    /\ metrics = InitialMetrics
    /\ NoScoreCall
    /\ NoCall
    /\ NoFetch
    /\ NoSelect

\* lines 156-162: the program is found
ResolveProgram ==
    /\ ev_pc = "start"
    /\ Resolved(program)
    /\ ev_pc' = "resolved"
    /\ UNCHANGED <<program, disk, pr_ids, num_prs, pr_numbers, doc_text, idx,
                   actual_diff, gen_diff, similarity_scores, errors, calls,
                   written, metrics>>
    /\ UNCHANGED <<score_vars, call_vars, fetch_vars, select_vars>>

\* raise RuntimeError(f"Cannot find program at {program_path} ...")
ResolveRaises ==
    /\ ev_pc = "start"
    /\ ~Resolved(program)
    /\ ev_pc' = "raised"
    /\ UNCHANGED <<program, disk, pr_ids, num_prs, pr_numbers, doc_text, idx,
                   actual_diff, gen_diff, similarity_scores, errors, calls,
                   written, metrics>>
    /\ UNCHANGED <<score_vars, call_vars, fetch_vars, select_vars>>

\* lines 166-203: the module is imported, or "Cannot load program" (or an
\* exception of the program's own code) leaves the function
LoadModule ==
    /\ ev_pc = "resolved"
    /\ \E loaded \in BOOLEAN :
          ev_pc' = IF loaded THEN "loaded" ELSE "raised"
    /\ UNCHANGED <<program, disk, pr_ids, num_prs, pr_numbers, doc_text, idx,
                   actual_diff, gen_diff, similarity_scores, errors, calls,
                   written, metrics>>
    /\ UNCHANGED <<score_vars, call_vars, fetch_vars, select_vars>>

\* if pr_ids: pr_numbers = pr_ids[:num_prs]
UseGivenCases ==
    /\ ev_pc = "loaded"
    /\ pr_ids # <<>>
    /\ pr_numbers' = Prefix(pr_ids, num_prs)
    /\ ev_pc' = "listed"
    /\ UNCHANGED <<program, disk, pr_ids, num_prs, doc_text, idx, actual_diff,
                   gen_diff, similarity_scores, errors, calls, written,
                   metrics>>
    /\ UNCHANGED <<score_vars, call_vars, fetch_vars, select_vars>>

\* pr_numbers = fetch_closed_pr_numbers(limit=num_prs)
ListCases ==
    /\ ev_pc = "loaded"
    /\ pr_ids = <<>>
    /\ pr_numbers' \in ListedCases(num_prs)
    /\ calls' = Append(calls, Call("fetch_closed_pr_numbers", 0, "returned",
                                   NoneVal, NoneVal))
    /\ ev_pc' = "listed"
    /\ UNCHANGED <<program, disk, pr_ids, num_prs, doc_text, idx, actual_diff,
                   gen_diff, similarity_scores, errors, written, metrics>>
    /\ UNCHANGED <<score_vars, call_vars, fetch_vars, select_vars>>

\* except Exception as e: errors.append(f"failed_list_prs: {e}")
ListCasesFails ==
    /\ ev_pc = "loaded"
    /\ pr_ids = <<>>
    /\ pr_numbers' = <<>>
    /\ errors' = Append(errors, ListError("list failed"))
    /\ calls' = Append(calls, Call("fetch_closed_pr_numbers", 0, "raised",
                                   NoneVal, NoneVal))
    /\ ev_pc' = "listed"
    /\ UNCHANGED <<program, disk, pr_ids, num_prs, doc_text, idx, actual_diff,
                   gen_diff, similarity_scores, written, metrics>>
    /\ UNCHANGED <<score_vars, call_vars, fetch_vars, select_vars>>

\* lines 234-241: doc_text = module.generate_docs(); when that call raises
\* TypeError, doc_text = module.generate_docs(None); when that call raises
\* an Exception, doc_text = ""
GenerateDocs ==
    /\ ev_pc = "listed"
    /\ \/ /\ doc_text' \in {<<"d", "o", "c">>, <<>>}
          /\ calls' = Append(calls, Call("generate_docs", 0, "returned",
                                         NoneVal, NoneVal))
       \/ /\ doc_text' \in {<<"d", "o", "c">>, <<>>}
          /\ calls' = calls \o
                         <<Call("generate_docs", 0, "raised TypeError",
                                NoneVal, NoneVal),
                           Call("generate_docs", 0, "returned",
                                NoneVal, NoneVal)>>
       \/ /\ doc_text' = <<>>
          /\ calls' = calls \o
                         <<Call("generate_docs", 0, "raised TypeError",
                                NoneVal, NoneVal),
                           Call("generate_docs", 0, "raised Exception",
                                NoneVal, NoneVal)>>
    /\ idx' = 1
    /\ ev_pc' = "loop"
    /\ UNCHANGED <<program, disk, pr_ids, num_prs, pr_numbers, actual_diff,
                   gen_diff, similarity_scores, errors, written, metrics>>
    /\ UNCHANGED <<score_vars, call_vars, fetch_vars, select_vars>>

\* lines 234-241: generate_docs() raises something other than TypeError, or
\* generate_docs(None) raises something that is no Exception (SystemExit,
\* KeyboardInterrupt): no handler, the run raises
GenerateDocsRaises ==
    /\ ev_pc = "listed"
    /\ \/ calls' = Append(calls, Call("generate_docs", 0, "raised",
                                      NoneVal, NoneVal))
       \/ calls' = calls \o
                      <<Call("generate_docs", 0, "raised TypeError",
                             NoneVal, NoneVal),
                        Call("generate_docs", 0, "raised",
                             NoneVal, NoneVal)>>
    /\ ev_pc' = "raised"
    /\ UNCHANGED <<program, disk, pr_ids, num_prs, pr_numbers, doc_text, idx,
                   actual_diff, gen_diff, similarity_scores, errors, written,
                   metrics>>
    /\ UNCHANGED <<score_vars, call_vars, fetch_vars, select_vars>>

\* pr_body, files, actual_diff = fetch_pr_details(prn)
FetchCase ==
    /\ ev_pc = "loop"
    /\ idx <= Len(pr_numbers)
    /\ actual_diff' \in ActualTexts
    /\ calls' = Append(calls, Call("fetch_pr_details", prn, "returned",
                                   actual_diff', NoneVal))
    /\ ev_pc' = "fetched"
    /\ UNCHANGED <<program, disk, pr_ids, num_prs, pr_numbers, doc_text, idx,
                   gen_diff, similarity_scores, errors, written, metrics>>
    /\ UNCHANGED <<score_vars, call_vars, fetch_vars, select_vars>>

\* FetchRateLimited without the "continue": the error is recorded and the
\* body of the loop goes on
FetchRateLimited_NoContinue ==
    /\ ev_pc = "loop"
    /\ idx <= Len(pr_numbers)
    /\ errors' = Append(errors, RateLimitError(prn))
    /\ calls' = Append(calls, Call("fetch_pr_details", prn, "raised 403",
                                   NoneVal, NoneVal))
    /\ ev_pc' = "fetched"
    /\ UNCHANGED <<program, disk, pr_ids, num_prs, idx, pr_numbers, doc_text,
                   actual_diff, gen_diff, similarity_scores, written, metrics>>
    /\ UNCHANGED <<score_vars, call_vars, fetch_vars, select_vars>>

\* except HTTPError with status 403: one error, continue
FetchRateLimited ==
    /\ ev_pc = "loop"
    /\ idx <= Len(pr_numbers)
    /\ errors' = Append(errors, RateLimitError(prn))
    /\ calls' = Append(calls, Call("fetch_pr_details", prn, "raised 403",
                                   NoneVal, NoneVal))
    /\ idx' = idx + 1
    /\ UNCHANGED <<program, disk, pr_ids, num_prs, ev_pc, pr_numbers, doc_text,
                   actual_diff, gen_diff, similarity_scores, written, metrics>>
    /\ UNCHANGED <<score_vars, call_vars, fetch_vars, select_vars>>

\* another HTTPError is raised again, and it or any other exception of the
\* fetch reaches "except Exception as e: errors.append(f"pr_{prn}: {e}")"
FetchRaises ==
    /\ ev_pc = "loop"
    /\ idx <= Len(pr_numbers)
    /\ \E e \in FetchFailures : errors' = Append(errors, CaseError(prn, e))
    /\ calls' = Append(calls, Call("fetch_pr_details", prn, "raised",
                                   NoneVal, NoneVal))
    /\ idx' = idx + 1
    /\ UNCHANGED <<program, disk, pr_ids, num_prs, ev_pc, pr_numbers, doc_text,
                   actual_diff, gen_diff, similarity_scores, written, metrics>>
    /\ UNCHANGED <<score_vars, call_vars, fetch_vars, select_vars>>

\* gen_diff = generate_patch_from_doc_and_pr(doc_text, pr_body)
GeneratePatch ==
    /\ ev_pc = "fetched"
    /\ gen_diff' \in GenTexts
    /\ calls' = Append(calls, Call("generate_patch_from_doc_and_pr", prn,
                                   "returned", Str(gen_diff'), NoneVal))
    /\ ev_pc' = "generated"
    /\ UNCHANGED <<program, disk, pr_ids, num_prs, pr_numbers, doc_text, idx,
                   actual_diff, similarity_scores, errors, written, metrics>>
    /\ UNCHANGED <<score_vars, call_vars, fetch_vars, select_vars>>

\* GeneratePatchRaises with the exception swallowed: the body of the loop
\* goes on with the text of the iteration before
GeneratePatchRaises_GoesOn ==
    /\ ev_pc = "fetched"
    /\ calls' = Append(calls, Call("generate_patch_from_doc_and_pr", prn,
                                   "raised", NoneVal, NoneVal))
    /\ ev_pc' = "generated"
    /\ UNCHANGED <<program, disk, pr_ids, num_prs, pr_numbers, doc_text, idx,
                   actual_diff, gen_diff, similarity_scores, errors, written,
                   metrics>>
    /\ UNCHANGED <<score_vars, call_vars, fetch_vars, select_vars>>

\* the generation raises: the outer handler records it
GeneratePatchRaises ==
    /\ ev_pc = "fetched"
    /\ errors' = Append(errors, CaseError(prn, "generation failed"))
    /\ calls' = Append(calls, Call("generate_patch_from_doc_and_pr", prn,
                                   "raised", NoneVal, NoneVal))
    /\ idx' = idx + 1
    /\ ev_pc' = "loop"
    /\ UNCHANGED <<program, disk, pr_ids, num_prs, pr_numbers, doc_text,
                   actual_diff, gen_diff, similarity_scores, written, metrics>>
    /\ UNCHANGED <<score_vars, call_vars, fetch_vars, select_vars>>

\* the files of a case in the order lines 274-285 write them
Artifacts == <<"doc.txt", "gen_patch.diff", "actual_patch.diff">>

\* pr_dir.mkdir(parents=True, exist_ok=True), then doc.txt, gen_patch.diff
\* and actual_patch.diff one after the other: the first write that fails is
\* printed and ends the writing
MakeCaseDir ==
    /\ ev_pc = "generated"
    /\ ~MkdirFails(prn)
    /\ disk' = IF disk = "absent" THEN "dir" ELSE disk
    /\ \E saved \in 0..Len(Artifacts) :
          written' = written \cup {<<prn, Artifacts[k]>> : k \in 1..saved}
    /\ ev_pc' = "dir_made"
    /\ UNCHANGED <<program, pr_ids, num_prs, pr_numbers, doc_text, idx,
                   actual_diff, gen_diff, similarity_scores, errors, calls,
                   metrics>>
    /\ UNCHANGED <<score_vars, call_vars, fetch_vars, select_vars>>

\* the mkdir raises and the outer handler records it: NotADirectoryError
\* ([Errno 20] Not a directory) when results_dir is a regular file,
\* FileExistsError ([Errno 17] File exists) when pr_dir itself is one
MakeCaseDirRaises ==
    /\ ev_pc = "generated"
    /\ MkdirFails(prn)
    /\ errors' = Append(errors,
                        CaseError(prn, IF disk = "results_dir is a file"
                                       THEN "Not a directory"
                                       ELSE "File exists"))
    /\ idx' = idx + 1
    /\ ev_pc' = "loop"
    /\ UNCHANGED <<program, disk, pr_ids, num_prs, pr_numbers, doc_text,
                   actual_diff, gen_diff, similarity_scores, calls, written,
                   metrics>>
    /\ UNCHANGED <<score_vars, call_vars, fetch_vars, select_vars>>

\* similarity = score_patch_similarity(gen_diff, actual_diff), appended,
\* then summary.json, whose failure is passed over; the entry of the call
\* in the log holds the score the call returned
ScoreCase ==
    /\ ev_pc = "dir_made"
    /\ LET similarity == score_patch_similarity(Str(gen_diff), actual_diff)
       IN  /\ similarity_scores' = Append(similarity_scores, similarity)
           /\ calls' = Append(calls,
                              [fn |-> "score_patch_similarity", id |-> prn,
                               outcome |-> "returned",
                               texts |-> <<Str(gen_diff), actual_diff>>,
                               score |-> similarity])
    /\ \E saved \in BOOLEAN :
          written' = IF saved THEN written \cup {<<prn, "summary.json">>}
                     ELSE written
    /\ idx' = idx + 1
    /\ ev_pc' = "loop"
    /\ UNCHANGED <<program, disk, pr_ids, num_prs, pr_numbers, doc_text,
                   actual_diff, gen_diff, errors, metrics>>
    /\ UNCHANGED <<score_vars, call_vars, fetch_vars, select_vars>>

\* an exception inside score_patch_similarity: the outer handler records it
ScoreCaseRaises ==
    /\ ev_pc = "dir_made"
    /\ errors' = Append(errors, CaseError(prn, "scoring failed"))
    /\ calls' = Append(calls, Call("score_patch_similarity", prn, "raised",
                                   Str(gen_diff), actual_diff))
    /\ idx' = idx + 1
    /\ ev_pc' = "loop"
    /\ UNCHANGED <<program, disk, pr_ids, num_prs, pr_numbers, doc_text,
                   actual_diff, gen_diff, similarity_scores, written, metrics>>
    /\ UNCHANGED <<score_vars, call_vars, fetch_vars, select_vars>>

\* metrics as filled in by lines 307-311
FilledMetrics ==
    [per_pr_similarity |-> similarity_scores,
     combined_score |-> Mean(similarity_scores),
     errors |-> errors]

\* lines 307-324: the metrics are filled in, results_dir is created,
\* metrics.json and correct.json are written and the metrics are returned
WriteMetrics ==
    /\ ev_pc = "loop"
    /\ idx > Len(pr_numbers)
    /\ ~ResultsDirFails
    /\ metrics' = FilledMetrics
    /\ disk' = IF disk = "absent" THEN "dir" ELSE disk
    /\ written' = written \cup {<<0, "metrics.json">>, <<0, "correct.json">>}
    /\ ev_pc' = "returned"
    /\ UNCHANGED <<program, pr_ids, num_prs, pr_numbers, doc_text, idx,
                   actual_diff, gen_diff, similarity_scores, errors, calls>>
    /\ UNCHANGED <<score_vars, call_vars, fetch_vars, select_vars>>

\* line 313 raises: no handler, nothing is written
WriteMetricsRaises ==
    /\ ev_pc = "loop"
    /\ idx > Len(pr_numbers)
    /\ ResultsDirFails
    /\ metrics' = FilledMetrics
    /\ ev_pc' = "raised"
    /\ UNCHANGED <<program, disk, pr_ids, num_prs, pr_numbers, doc_text, idx,
                   actual_diff, gen_diff, similarity_scores, errors, calls,
                   written>>
    /\ UNCHANGED <<score_vars, call_vars, fetch_vars, select_vars>>

NextEval ==
    \/ ResolveProgram
    \/ ResolveRaises
    \/ LoadModule
    \/ UseGivenCases
    \/ ListCases
    \/ ListCasesFails
    \/ GenerateDocs
    \/ GenerateDocsRaises
    \/ FetchCase
    \/ FetchRateLimited
    \/ FetchRaises
    \/ GeneratePatch
    \/ GeneratePatchRaises
    \/ MakeCaseDir
    \/ MakeCaseDirRaises
    \/ ScoreCase
    \/ ScoreCaseRaises
    \/ WriteMetrics
    \/ WriteMetricsRaises

SpecEval == InitEval /\ [][NextEval]_vars

(***************************************************************************)
(* fetch_pr_details and its cache (internal/fetcher.py)                    *)
(***************************************************************************)
\* the calls of fetch_pr_details made in one run of the model
MaxFetches == 3

\* elif default_cache.exists() ... elif legacy_cache.exists() ... else
ChooseCacheDir(env_cache, default_exists, legacy_exists) ==
    IF env_cache # "" THEN "env_cache"
    ELSE IF default_exists THEN "default_cache"
    ELSE IF legacy_exists THEN "legacy_cache"
    ELSE "default_cache"

\* os.getenv("FORCE_PR_FETCH") in ("1", "true", "True")
ForceFromEnv(v) == v \in {"1", "true", "True"}

\* the (body, files, diff_text) a call returns
Triple(b, f, d) == [body |-> b, files |-> f, diff_text |-> d]

\* a JSON object with some of the keys of a cache entry
JsonObject(keys, b, f, d) ==
    [keys |-> keys, body |-> b, files |-> f, diff_text |-> d]

\* what is at cache_file: nothing, a text that is not JSON, the JSON text of
\* an array, or the JSON text of an object
NoFile == [kind |-> "absent", data |-> JsonObject({}, NoneVal, <<>>, NoneVal)]

NotJson == [kind |-> "corrupt", data |-> JsonObject({}, NoneVal, <<>>, NoneVal)]

JsonArray == [kind |-> "array", data |-> JsonObject({}, NoneVal, <<>>, NoneVal)]

JsonFile(obj) == [kind |-> "object", data |-> obj]

\* json.dumps({"fetched_at": ..., "body": body, "files": files,
\*             "diff_text": diff_text})
CacheEntry(body, files, diff_text) ==
    JsonFile(JsonObject({"fetched_at", "body", "files", "diff_text"},
                        body, files, diff_text))

\* cache_file.exists()
Exists(file) == file.kind # "absent"

\* json.loads(cache_file.read_text()) returns and data.get can be called:
\* the text is that of a JSON object
Readable(file) == file.kind = "object"

\* data.get(key, default)
Get(data, key, default) == IF key \in data.keys THEN data[key] ELSE default

\* data.get("body", ""), data.get("files", []), data.get("diff_text", "")
CachedTriple(file) ==
    Triple(Get(file.data, "body", Str(<<>>)),
           Get(file.data, "files", <<>>),
           Get(file.data, "diff_text", Str(<<>>)))

\* what the server answers to the three requests: the pull request (its
\* body, null or a text, and whether it has a diff_url), the list of files,
\* and the text at diff_url
ServerReplies ==
    {[body |-> NoneVal, has_diff_url |-> FALSE, files |-> <<>>,
      text |-> Str(<<>>)],
     [body |-> Str(<<"f", "i", "x">>), has_diff_url |-> TRUE,
      files |-> <<"a.py">>, text |-> Str(<<"+", "x">>)],
     [body |-> Str(<<"f", "i", "x">>), has_diff_url |-> TRUE,
      files |-> <<"a.py", "b.py">>, text |-> Str(<<"+", "y">>)]}

\* body = pr.get("body", "") or ""; files = files_resp.json();
\* diff_text = diff_resp.text when there is a diff_url, else ""
NetworkTriple(reply) ==
    Triple(Str(OrEmpty(reply.body)),
           reply.files,
           IF reply.has_diff_url THEN reply.text ELSE Str(<<>>))

\* the requests a fetch that succeeds issues
RequestsOf(reply) == IF reply.has_diff_url THEN 3 ELSE 2

\* the cache entries a run can find at start
FoundFiles ==
    {NoFile, NotJson, JsonArray,
     JsonFile(JsonObject({}, NoneVal, <<>>, NoneVal)),
     JsonFile(JsonObject({"body", "files", "diff_text"}, NoneVal,
                         <<"a.py">>, Str(<<"+", "z">>)))}

\* the calls of fetch_pr_details that can be under way at the same time
\* (threads, or processes sharing CACHE_DIR)
Callers == {1, 2}

\* the record of a call that ended: its argument, how it ended, what it
\* returned, the requests it issued, the status of the HTTPError it met (-1
\* when none), the cache entry it found at line 116, the entry that was
\* there when it ended (before its own write), the triples that calls ended
\* before it began had fetched and written for its case, and whether a call
\* for its case ever began while another was under way
FetchRecord(n, outcome, value, reqs, status, before, found, earlier, raced) ==
    [pr_number |-> n, outcome |-> outcome, value |-> value, requests |-> reqs,
     status |-> status, before |-> before, found |-> found,
     earlier |-> earlier, raced |-> raced]

NoTriple == Triple(NoneVal, <<>>, NoneVal)

\* a caller that is not in fetch_pr_details
Idle ==
    [pc |-> "idle", pr_number |-> 0, before |-> NoFile, earlier |-> {},
     value |-> NoTriple, requests |-> 0, found |-> NoFile, clean |-> TRUE]

\* a caller past line 124: it found no usable entry and waits in
\* time.sleep and requests.get; once inside cache_file.write_text (pc
\* "writing") it holds the triple it fetched, the requests it issued and
\* the entry its open found, and clean says that no other write has
\* reached the file since the open
Waiting(n, before, earlier) ==
    [pc |-> "waiting", pr_number |-> n, before |-> before,
     earlier |-> earlier, value |-> NoTriple, requests |-> 0,
     found |-> NoFile, clean |-> TRUE]

\* the module is imported: lines 13-37; FORCE_PR_FETCH is not set ("") or
\* has one of five values
InitFetch ==
    /\ \E env_cache \in {"", "/tmp/cache"}, default_exists \in BOOLEAN,
          legacy_exists \in BOOLEAN :
          CACHE_DIR = ChooseCacheDir(env_cache, default_exists, legacy_exists)
    /\ \E v \in {"", "1", "true", "True", "TRUE", "0"} :
          CACHE_FORCE = ForceFromEnv(v)
    /\ requests \in BOOLEAN
    /\ \E found \in FoundFiles :
          cache = [n \in PrNumbers |-> IF n = 1 THEN found ELSE NoFile]
    /\ fetched = [n \in PrNumbers |-> [triples |-> {}, raced |-> FALSE]]
    /\ in_flight = [c \in Callers |-> Idle]
    /\ last_fetch = FetchRecord(0, "none", NoTriple, 0, -1, NoFile, NoFile,
                                {}, FALSE)
    /\ fetch_count = 0
    /\ NoScoreCall
    /\ NoCall
    /\ NoEval
    /\ NoSelect

\* the first "if" returns: the entry exists, the refetch is not forced, and
\* the entry can be read
CacheHit(n) == Exists(cache[n]) /\ ~CACHE_FORCE /\ Readable(cache[n])

\* the record of the call of caller c ending now; the entry it found is
\* the one its open for writing found when it leaves write_text, and the
\* one in the file now otherwise
Ended(c, outcome, value, reqs, status) ==
    LET n == in_flight[c].pr_number
    IN  FetchRecord(n, outcome, value, reqs, status, in_flight[c].before,
                    IF in_flight[c].pc = "writing"
                    THEN in_flight[c].found
                    ELSE cache[n],
                    in_flight[c].earlier, fetched[n].raced)

\* lines 115-121: return from the cache
FetchCached(c, n) ==
    /\ in_flight[c].pc = "idle"
    /\ fetch_count < MaxFetches
    /\ CacheHit(n)
    /\ last_fetch' = FetchRecord(n, "returned", CachedTriple(cache[n]), 0, -1,
                                 cache[n], cache[n], fetched[n].triples,
                                 fetched[n].raced)
    /\ fetch_count' = fetch_count + 1
    /\ UNCHANGED <<CACHE_DIR, CACHE_FORCE, requests, cache, fetched,
                   in_flight>>
    /\ UNCHANGED <<score_vars, call_vars, eval_vars, select_vars>>

\* lines 123-124: raise RuntimeError
FetchWithoutRequests(c, n) ==
    /\ in_flight[c].pc = "idle"
    /\ fetch_count < MaxFetches
    /\ ~CacheHit(n)
    /\ ~requests
    /\ last_fetch' = FetchRecord(n, "raised", NoTriple, 0, -1, cache[n],
                                 cache[n], fetched[n].triples,
                                 fetched[n].raced)
    /\ fetch_count' = fetch_count + 1
    /\ UNCHANGED <<CACHE_DIR, CACHE_FORCE, requests, cache, fetched,
                   in_flight>>
    /\ UNCHANGED <<score_vars, call_vars, eval_vars, select_vars>>

\* lines 115-129: no usable entry and requests at hand: the call goes on to
\* time.sleep and its first request
FetchStart(c, n) ==
    /\ in_flight[c].pc = "idle"
    /\ fetch_count < MaxFetches
    /\ ~CacheHit(n)
    /\ requests
    /\ in_flight' = [in_flight EXCEPT
                        ![c] = Waiting(n, cache[n], fetched[n].triples)]
    /\ fetched' = [fetched EXCEPT
                      ![n].raced =
                          \/ fetched[n].raced
                          \/ \E d \in Callers \ {c} :
                                /\ in_flight[d].pc # "idle"
                                /\ in_flight[d].pr_number = n]
    /\ fetch_count' = fetch_count + 1
    /\ UNCHANGED <<CACHE_DIR, CACHE_FORCE, requests, cache, last_fetch>>
    /\ UNCHANGED <<score_vars, call_vars, eval_vars, select_vars>>

\* lines 129-147 and 162-173, up to the open of write_text: the requests
\* succeed and the open for writing empties the file, the call going on
\* inside write_text; or the open raises, the file stays as it was, the
\* failure is logged and the triple is returned
FetchNetwork(c) ==
    /\ in_flight[c].pc = "waiting"
    /\ LET n == in_flight[c].pr_number
       IN  \E reply \in ServerReplies :
              LET t == NetworkTriple(reply)
              IN  \/ /\ cache' = [cache EXCEPT ![n] = NotJson]
                     /\ in_flight' =
                           [in_flight EXCEPT
                               ![c].pc = "writing",
                               ![c].value = t,
                               ![c].requests = RequestsOf(reply),
                               ![c].found = cache[n]]
                     /\ UNCHANGED last_fetch
                  \/ /\ last_fetch' = Ended(c, "returned", t,
                                            RequestsOf(reply), -1)
                     /\ in_flight' = [in_flight EXCEPT ![c] = Idle]
                     /\ UNCHANGED cache
    /\ UNCHANGED <<CACHE_DIR, CACHE_FORCE, requests, fetched, fetch_count>>
    /\ UNCHANGED <<score_vars, call_vars, eval_vars, select_vars>>

\* the callers other than c that have the file of case n open for writing
\* learn that a write reached it
Overwritten(c, n) ==
    [d \in Callers |->
        IF d = c
        THEN Idle
        ELSE IF in_flight[d].pc = "writing" /\ in_flight[d].pr_number = n
             THEN [in_flight[d] EXCEPT !.clean = FALSE]
             ELSE in_flight[d]]

\* lines 165-173, after the open: the text is written from the start of
\* the file and the triple is returned; the file holds the entry, or, when
\* another write reached the file since the open, the entry or the two
\* texts one over the other
FetchWritten(c) ==
    /\ in_flight[c].pc = "writing"
    /\ LET n == in_flight[c].pr_number
           t == in_flight[c].value
           entry == CacheEntry(t.body, t.files, t.diff_text)
       IN  /\ \/ cache' = [cache EXCEPT ![n] = entry]
              \/ /\ ~in_flight[c].clean
                 /\ cache' = [cache EXCEPT ![n] = NotJson]
           /\ fetched' = [fetched EXCEPT ![n].triples = @ \cup {t}]
           /\ in_flight' = Overwritten(c, n)
    /\ last_fetch' = Ended(c, "returned", in_flight[c].value,
                         in_flight[c].requests, -1)
    /\ UNCHANGED <<CACHE_DIR, CACHE_FORCE, requests, fetch_count>>
    /\ UNCHANGED <<score_vars, call_vars, eval_vars, select_vars>>

\* lines 165-173, after the open: the write raises, nothing or a part of
\* the text having reached the file; the failure is logged and the triple
\* is returned
FetchWriteFails(c) ==
    /\ in_flight[c].pc = "writing"
    /\ LET n == in_flight[c].pr_number
       IN  \/ /\ UNCHANGED cache
              /\ in_flight' = [in_flight EXCEPT ![c] = Idle]
           \/ /\ cache' = [cache EXCEPT ![n] = NotJson]
              /\ in_flight' = Overwritten(c, n)
    /\ last_fetch' = Ended(c, "returned", in_flight[c].value,
                         in_flight[c].requests, -1)
    /\ UNCHANGED <<CACHE_DIR, CACHE_FORCE, requests, fetched, fetch_count>>
    /\ UNCHANGED <<score_vars, call_vars, eval_vars, select_vars>>

\* lines 148-158: the k-th request raises HTTPError with status 403 and, at
\* that time, the entry exists and can be read: the cached triple is
\* returned
FetchForbiddenUsesCache(c) ==
    /\ in_flight[c].pc = "waiting"
    /\ LET n == in_flight[c].pr_number
       IN  /\ Exists(cache[n])
           /\ Readable(cache[n])
           /\ \E k \in 1..3 :
                 last_fetch' = Ended(c, "returned", CachedTriple(cache[n]), k,
                                     403)
    /\ in_flight' = [in_flight EXCEPT ![c] = Idle]
    /\ UNCHANGED <<CACHE_DIR, CACHE_FORCE, requests, cache, fetched,
                   fetch_count>>
    /\ UNCHANGED <<score_vars, call_vars, eval_vars, select_vars>>

\* lines 148-160: the k-th request raises HTTPError, whose response has
\* status 403 or 500 or is missing (0), and the cache is of no
\* use (another status, no entry, or an entry that cannot be read at that
\* time): raise
FetchHTTPErrorRaises(c) ==
    /\ in_flight[c].pc = "waiting"
    /\ LET n == in_flight[c].pr_number
       IN  \E status \in {403, 500, 0}, k \in 1..3 :
              /\ ~(status = 403 /\ Exists(cache[n]) /\ Readable(cache[n]))
              /\ last_fetch' = Ended(c, "raised", NoTriple, k, status)
    /\ in_flight' = [in_flight EXCEPT ![c] = Idle]
    /\ UNCHANGED <<CACHE_DIR, CACHE_FORCE, requests, cache, fetched,
                   fetch_count>>
    /\ UNCHANGED <<score_vars, call_vars, eval_vars, select_vars>>

\* the k-th request raises an exception that is no HTTPError: it leaves
\* fetch_pr_details
FetchConnectionError(c) ==
    /\ in_flight[c].pc = "waiting"
    /\ \E k \in 1..3 : last_fetch' = Ended(c, "raised", NoTriple, k, -1)
    /\ in_flight' = [in_flight EXCEPT ![c] = Idle]
    /\ UNCHANGED <<CACHE_DIR, CACHE_FORCE, requests, cache, fetched,
                   fetch_count>>
    /\ UNCHANGED <<score_vars, call_vars, eval_vars, select_vars>>

NextFetch ==
    \/ \E c \in Callers, n \in PrNumbers : FetchCached(c, n)
    \/ \E c \in Callers, n \in PrNumbers : FetchWithoutRequests(c, n)
    \/ \E c \in Callers, n \in PrNumbers : FetchStart(c, n)
    \/ \E c \in Callers : FetchNetwork(c)
    \/ \E c \in Callers : FetchWritten(c)
    \/ \E c \in Callers : FetchWriteFails(c)
    \/ \E c \in Callers : FetchForbiddenUsesCache(c)
    \/ \E c \in Callers : FetchHTTPErrorRaises(c)
    \/ \E c \in Callers : FetchConnectionError(c)

SpecFetch == InitFetch /\ [][NextFetch]_vars

(***************************************************************************)
(* ask_llm_to_select_files (internal/llm_helper.py)                        *)
(***************************************************************************)
\* the whitespace json.loads skips, of the modelled alphabet
JsonWs == {" ", "\t", "\n"}

Digits == {"0", "1", "2", "3", "4", "5", "6", "7", "8", "9"}

\* a value json.loads returns: its type, its characters (a str, a number)
\* and its items (a list)
JVal(t, s, items) == [t |-> t, s |-> s, items |-> items]

\* json.loads raises
JFail == [ok |-> FALSE, val |-> JVal("null", <<>>, <<>>), next |-> 0]

\* a value was read and the text goes on at next
JOk(v, next) == [ok |-> TRUE, val |-> v, next |-> next]

\* the control characters of the modelled alphabet, which a JSON string
\* may not hold
ControlChars == {"\t", "\n"}

\* a string whose opening quote is s[i]: the characters up to the next
\* quote, none of them a control character; the alphabet has no backslash
JString(s, i) ==
    LET k == SkipTo(s, i + 1, {"\""} \cup ControlChars)
    IN  IF k > Len(s) \/ s[k] \in ControlChars THEN JFail
        ELSE JOk(JVal("str", SubSeq(s, i + 1, k - 1), <<>>), k + 1)

\* an integer whose first digit is s[i]: a leading 0 is a number by itself
JNumber(s, i) ==
    LET k == SkipSet(s, i, Digits)
    IN  IF s[i] = "0" THEN JOk(JVal("num", <<"0">>, <<>>), i + 1)
        ELSE JOk(JVal("num", SubSeq(s, i, k - 1), <<>>), k)

\* the literals null, true and false at s[i]
JLiteral(s, i) ==
    IF StartsWith(Drop(s, i), <<"n", "u", "l", "l">>)
    THEN JOk(JVal("null", <<>>, <<>>), i + 4)
    ELSE IF StartsWith(Drop(s, i), <<"t", "r", "u", "e">>)
    THEN JOk(JVal("bool", <<"1">>, <<>>), i + 4)
    ELSE IF StartsWith(Drop(s, i), <<"f", "a", "l", "s", "e">>)
    THEN JOk(JVal("bool", <<"0">>, <<>>), i + 5)
    ELSE JFail

RECURSIVE JValue(_, _)
RECURSIVE JElements(_, _, _)
RECURSIVE JMembers(_, _)
\* the JSON value that starts at or after s[i], whitespace skipped
JValue(s, i) ==
    LET j == SkipSet(s, i, JsonWs)
    IN  IF j > Len(s) THEN JFail
        ELSE IF s[j] = "\"" THEN JString(s, j)
        ELSE IF s[j] \in Digits THEN JNumber(s, j)
        ELSE IF s[j] = "["
        THEN LET k == SkipSet(s, j + 1, JsonWs)
             IN  IF k <= Len(s) /\ s[k] = "]"
                 THEN JOk(JVal("list", <<>>, <<>>), k + 1)
                 ELSE JElements(s, j + 1, <<>>)
        ELSE IF s[j] = "{"
        THEN LET k == SkipSet(s, j + 1, JsonWs)
             IN  IF k <= Len(s) /\ s[k] = "}"
                 THEN JOk(JVal("dict", <<>>, <<>>), k + 1)
                 ELSE JMembers(s, j + 1)
        ELSE JLiteral(s, j)

\* the elements of an array from s[i] on, after those of acc: values
\* separated by commas and closed by "]"
JElements(s, i, acc) ==
    LET v == JValue(s, i)
        k == SkipSet(s, v.next, JsonWs)
    IN  IF ~v.ok \/ k > Len(s) THEN JFail
        ELSE IF s[k] = "," THEN JElements(s, k + 1, Append(acc, v.val))
        ELSE IF s[k] = "]"
        THEN JOk(JVal("list", <<>>, Append(acc, v.val)), k + 1)
        ELSE JFail

\* the members of an object from s[i] on: "key": value pairs separated by
\* commas and closed by "}"
JMembers(s, i) ==
    LET j == SkipSet(s, i, JsonWs)
        key == IF j <= Len(s) /\ s[j] = "\"" THEN JString(s, j) ELSE JFail
        c == SkipSet(s, key.next, JsonWs)
        v == IF key.ok /\ c <= Len(s) /\ s[c] = ":"
             THEN JValue(s, c + 1) ELSE JFail
        k == SkipSet(s, v.next, JsonWs)
    IN  IF ~v.ok \/ k > Len(s) THEN JFail
        ELSE IF s[k] = "," THEN JMembers(s, k + 1)
        ELSE IF s[k] = "}" THEN JOk(JVal("dict", <<>>, <<>>), k + 1)
        ELSE JFail

\* json.loads(s): one value and nothing but whitespace after it
json_loads(s) ==
    LET v == JValue(s, 1)
    IN  IF v.ok /\ SkipSet(s, v.next, JsonWs) > Len(s) THEN v ELSE JFail

\* s.find(c): the 0-based index of the first c, -1 when there is none
Find(s, c) ==
    LET k == SkipTo(s, 1, {c}) IN IF k > Len(s) THEN -1 ELSE k - 1

\* s.rfind(c): the 0-based index of the last c, -1 when there is none
RFind(s, c) ==
    LET at == {k \in 1..Len(s) : s[k] = c}
    IN  IF at = {} THEN -1 ELSE (CHOOSE k \in at : \A m \in at : m <= k) - 1

\* lines 48-58: picks, or the failure that makes the function return
\* all_paths
Picks(content) ==
    LET direct == json_loads(content)
        start == Find(content, "[")
        end == RFind(content, "]")
    IN  IF direct.ok THEN direct
        ELSE IF start = -1 \/ end = -1 \/ end <= start THEN JFail
        ELSE json_loads(SubSeq(content, start + 1, end + 1))

\* Filtered keeping every str of picks
Filtered_AnyStr(picks, paths) ==
    LET kept == SelectSeq(picks, LAMBDA p : p.t = "str")
    IN  [i \in 1..Len(kept) |-> kept[i].s]

\* [p for p in picks if p in all_paths]
Filtered(picks, paths) ==
    LET kept == SelectSeq(picks,
                          LAMBDA p : /\ p.t = "str"
                                     /\ \E i \in 1..Len(paths) : paths[i] = p.s)
    IN  [i \in 1..Len(kept) |-> kept[i].s]

\* content = (getattr(res, "content", "") or "").strip()
Content(x) == Strip(OrEmpty(x))

\* the largest number of pieces a reply is made of
MaxParts == 2

\* a JSON array of one path
ArrayA == <<"[", "\"", "a", "\"", "]">>

\* a path twice and a name that is no path
ArrayBZB == <<"[", "\"", "b", "\"", ",", "\"", "z", "\"", ",", " ", "\"", "b", "\"", "]">>

\* words
Prose == <<"o", "k", " ">>

\* a JSON object holding an array
ObjectK == <<"{", "\"", "k", "\"", ":", "[", "\"", "a", "\"", "]", "}">>

\* a JSON string with brackets inside
QuotedBrackets == <<"\"", "[", "z", "]", "\"">>

\* a number and a nested array
Nested == <<"[", "1", ",", "[", "\"", "a", "\"", "]", "]">>

\* spaces around the tokens and a line break at the end
ArrayZ == <<" ", "[", " ", "\"", "z", "\"", " ", "]", "\n">>

\* an opening bracket
OpenBracket == <<"[">>

\* a closing bracket and a comma
CloseBracket == <<"]", ",">>

\* the literal null
Null == <<"n", "u", "l", "l">>

\* an array with a tab inside one of its strings
ArrayTab == <<"[", "\"", "a", "\"", ",", "\"", "b", "\t", "\"", "]">>

Fragments ==
    <<ArrayA, ArrayBZB, Prose, ObjectK, QuotedBrackets, Nested, ArrayZ,
      OpenBracket, CloseBracket, Null, ArrayTab>>

RECURSIVE Concat(_)
Concat(parts) ==
    IF parts = <<>> THEN <<>>
    ELSE Fragments[Head(parts)] \o Concat(Tail(parts))

\* the replies of the model: no content, or up to MaxParts pieces
Replies ==
    {NoneVal} \cup
    {Str(Concat(parts)) :
        parts \in UNION {[1..n -> 1..Len(Fragments)] : n \in 0..MaxParts}}

\* the lists of paths the tree is rendered from
PathLists == {<<>>, <<<<"a">>>>, <<<<"a">>, <<"b">>>>}

InitSelect ==
    /\ res \in Replies
    /\ all_paths \in PathLists
    /\ picked = <<>>
    /\ ask_pc = "called"
    /\ NoScoreCall
    /\ NoCall
    /\ NoEval
    /\ NoFetch

\* lines 60-61: picks is a list
SelectFiltered ==
    /\ ask_pc = "called"
    /\ Picks(Content(res)).ok
    /\ Picks(Content(res)).val.t = "list"
    /\ picked' = Filtered(Picks(Content(res)).val.items, all_paths)
    /\ ask_pc' = "returned"
    /\ UNCHANGED <<res, all_paths>>
    /\ UNCHANGED <<score_vars, call_vars, eval_vars, fetch_vars>>

\* line 62: picks is no list
SelectNotAList ==
    /\ ask_pc = "called"
    /\ Picks(Content(res)).ok
    /\ Picks(Content(res)).val.t # "list"
    /\ picked' = all_paths
    /\ ask_pc' = "returned"
    /\ UNCHANGED <<res, all_paths>>
    /\ UNCHANGED <<score_vars, call_vars, eval_vars, fetch_vars>>

\* lines 53-58: nothing could be parsed
SelectUnparsed ==
    /\ ask_pc = "called"
    /\ ~Picks(Content(res)).ok
    /\ picked' = all_paths
    /\ ask_pc' = "returned"
    /\ UNCHANGED <<res, all_paths>>
    /\ UNCHANGED <<score_vars, call_vars, eval_vars, fetch_vars>>

NextSelect == SelectFiltered \/ SelectNotAList \/ SelectUnparsed

SpecSelect == InitSelect /\ [][NextSelect]_vars

(***************************************************************************)
(* What the claims speak of, stated on the lines of a text                 *)
(***************************************************************************)
\* the positions of the "+++ b/<path>" lines
HeaderPositions(lines) == {i \in 1..Len(lines) : HeaderMatch(lines[i]) # 0}

SetMin(S) == CHOOSE x \in S : \A y \in S : x <= y

\* the last line of the file section whose header is line i
SectionEnd(lines, i) ==
    LET later == {j \in HeaderPositions(lines) : j > i}
    IN  IF later = {} THEN Len(lines) ELSE SetMin(later) - 1

IsHunkHeader(ln) == StartsWith(ln, <<"@", "@">>)

\* a line that belongs to a hunk text
KeptLine(ln) == IsHunkHeader(ln) \/ IsBodyLine(ln)

\* where the hunks of the lines lo..hi start: at every "@@" line, and at the
\* first body line when it comes before every "@@" line
HunkStarts(lines, lo, hi) ==
    {k \in lo..hi :
        \/ IsHunkHeader(lines[k])
        \/ /\ IsBodyLine(lines[k])
           /\ \A j \in lo..(k - 1) : ~KeptLine(lines[j])}

\* the hunks that appear in the lines lo..hi, in order
RegionHunks(lines, lo, hi) ==
    LET starts == HunkStarts(lines, lo, hi)
        n == Cardinality(starts)
        Nth(m) == CHOOSE k \in starts : Cardinality({j \in starts : j <= k}) = m
        EndOf(m) == IF m = n THEN hi ELSE Nth(m + 1) - 1
    IN  [m \in 1..n |->
            join(SelectSeq(SubSeq(lines, Nth(m), EndOf(m)), KeptLine))]

\* the hunks of every section of path p, in encounter order
RECURSIVE ConcatHunksFrom(_, _, _)
ConcatHunksFrom(lines, p, i) ==
    IF i > Len(lines) THEN <<>>
    ELSE IF HeaderMatch(lines[i]) # 0 /\ HeaderPath(lines[i]) = p
    THEN RegionHunks(lines, i + 1, SectionEnd(lines, i))
            \o ConcatHunksFrom(lines, p, i + 1)
    ELSE ConcatHunksFrom(lines, p, i + 1)

\* a header followed by an "@@" line before the next header
HasWellFormedSection(text) ==
    LET lines == splitlines(text)
    IN  \E i \in HeaderPositions(lines) :
            \E j \in (i + 1)..SectionEnd(lines, i) : IsHunkHeader(lines[j])

\* None, or nothing but whitespace
IsBlank(x) == x.none \/ \A i \in 1..Len(x.str) : x.str[i] \in Whitespace

\* 0.0 <= x <= 1.0
InUnit(x) == Leq(Zero, x) /\ Leq(x, One)

(***************************************************************************)
(* Claims                                                                  *)
(***************************************************************************)
\* C1: a diff that is non-empty after trimming and has at least one
\* well-formed file section scores exactly 1.0 against itself, whatever else
\* it contains.
C1_SelfScoreIsOne ==
    (pc = "done" /\ generated = actual /\ ~IsBlank(generated)
        /\ HasWellFormedSection(OrEmpty(generated)))
    => result = One

\* C2: when one trimmed input is empty and the other is not, the returned
\* score and the file, function and variable scores are all 0.0.
C2_OneEmptyScoresZero ==
    (pc = "done" /\ IsBlank(generated) # IsBlank(actual))
    => /\ result = Zero
       /\ file_score = Zero
       /\ func_score = Zero
       /\ var_score = Zero

\* the identifier sets of the side that is not empty
NonEmptySideIdents ==
    IF IsBlank(generated)
    THEN collect_funcs_vars_from_files_map(parse_file_hunks(Strip(OrEmpty(actual))))
    ELSE collect_funcs_vars_from_files_map(parse_file_hunks(Strip(OrEmpty(generated))))

\* C2, amended: when one trimmed input is empty and the other is not, the
\* file score is 0.0, the function score is 0.0 if the non-empty side yields
\* a function or class name and 1.0 if it yields none, the variable score
\* likewise for variable names, and the result, the same in both argument
\* orders, is 0.35*func_score + 0.15*var_score.
C2_OneEmptyScores ==
    (pc = "done" /\ IsBlank(generated) # IsBlank(actual))
    => /\ file_score = Zero
       /\ func_score = (IF NonEmptySideIdents.funcs = {} THEN One ELSE Zero)
       /\ var_score = (IF NonEmptySideIdents.vars = {} THEN One ELSE Zero)
       /\ result = Combined(Zero, func_score, var_score)
       /\ result = score_patch_similarity(actual, generated)

\* a diff with a function name and no variable name scored against an empty
\* input: 0.15
C2_Witness ==
    /\ pc = "done"
    /\ IsBlank(actual)
    /\ g_files # EmptyDict
    /\ func_score = Zero
    /\ var_score = One
    /\ result = <<3, 20>>

\* C3: in the foo.py / baz.py scenario, in either order of the two sections
\* of the actual diff, the file score is 0.5, the function score is 1.0 and
\* the result is 0.5*0.5 + 0.35*1.0 + 0.15*var_score.
C3_ScenarioScores ==
    (pc = "done" /\ <<generated, actual>> \in ScenarioPairs)
    => /\ file_score = <<1, 2>>
       /\ func_score = One
       /\ result = Combined(<<1, 2>>, One, var_score)

\* C4: the returned score and each component score are the same when the
\* two arguments are exchanged.
C4_Symmetric ==
    pc = "done"
    => /\ result = score_patch_similarity(actual, generated)
       /\ parse_calls > 0
          => /\ file_score = Components(actual, generated).file
             /\ func_score = Components(actual, generated).func
             /\ var_score = Components(actual, generated).var

\* a call whose two sides touch different sets of paths and agree on one
C4_Witness ==
    /\ pc = "done"
    /\ DOMAIN g_files # DOMAIN a_files
    /\ DOMAIN g_files # {}
    /\ DOMAIN a_files # {}
    /\ file_score = <<1, 2>>

\* C5: for all inputs, the returned score and each of the three component
\* scores lie in [0.0, 1.0].
C5_InRange ==
    /\ FileScored => InUnit(file_score)
    /\ pc \in {"ident_scored", "done"} => InUnit(func_score) /\ InUnit(var_score)
    /\ pc = "done" => InUnit(result)

\* a call on None and a diff whose score is strictly between 0.0 and 1.0
C5_Witness ==
    /\ pc = "done"
    /\ generated = NoneVal
    /\ result # Zero
    /\ result # One

\* C6: when both inputs are empty after trimming, 0.0 is returned and
\* neither side is parsed.
C6_BothEmptyReturnsZero ==
    (pc = "done" /\ IsBlank(generated) /\ IsBlank(actual))
    => result = Zero /\ parse_calls = 0

\* a finished call on None and a whitespace-only string
C6_Witness ==
    /\ pc = "done"
    /\ generated = NoneVal
    /\ actual = Str(<<" ", "\n", "\t">>)

\* every hunk of every file section starts with an "@@" line
AllHunksHaveHeader(lines) ==
    \A i \in HeaderPositions(lines) :
        \A k \in HunkStarts(lines, i + 1, SectionEnd(lines, i)) :
            IsHunkHeader(lines[k])

\* C7: a path that appears under more than one header is one key whose hunk
\* list is the concatenation, in encounter order, of the hunks of all its
\* sections (stated for diffs whose hunks all start with an "@@" line).
C7_RepeatedPathConcatenates ==
    (Parsed /\ AllHunksHaveHeader(splitlines(g)))
    => \A p \in DOMAIN g_files :
          LET lines == splitlines(g)
          IN  Cardinality({i \in HeaderPositions(lines) :
                              HeaderPath(lines[i]) = p}) > 1
              => g_files[p] = ConcatHunksFrom(lines, p, 1)

\* the generated diff has exactly two headers, for two distinct paths
TwoSections ==
    LET lines == splitlines(g)
        hs == HeaderPositions(lines)
    IN  /\ Cardinality(hs) = 2
        /\ Cardinality({HeaderPath(lines[i]) : i \in hs}) = 2

\* the positions of the "--- <path>" lines that open the header of a file
OldHeaderPositions(lines) ==
    {k \in 1..(Len(lines) - 1) :
        /\ StartsWith(lines[k], <<"-", "-", "-", " ">>)
        /\ HeaderMatch(lines[k + 1]) # 0}

\* the last line of the file section whose header is line i that comes
\* before the header of the next file: a "--- <path>" line that opens the
\* next header is part of that header
LastBeforeHeader(lines, i) ==
    IF SectionEnd(lines, i) \in OldHeaderPositions(lines)
    THEN SectionEnd(lines, i) - 1
    ELSE SectionEnd(lines, i)

\* the hunks that appear in the file section whose header is line i, in
\* order: each is an "@@" line with the body lines that follow it, up to
\* the next "@@" line, the next file header or the end of input
SectionHunks(lines, i) ==
    LET hi == LastBeforeHeader(lines, i)
        starts == {k \in (i + 1)..hi : IsHunkHeader(lines[k])}
        n == Cardinality(starts)
        Nth(m) == CHOOSE k \in starts : Cardinality({j \in starts : j <= k}) = m
        EndOf(m) == IF m = n THEN hi ELSE Nth(m + 1) - 1
    IN  [m \in 1..n |->
            join(SelectSeq(SubSeq(lines, Nth(m), EndOf(m)), KeptLine))]

\* C8: a diff with two sections for two distinct paths parses to exactly two
\* keys, each holding exactly the hunks that appear after its own header
\* and before the next header (or the end of input), in order.
C8_TwoSectionsTwoKeys ==
    (Parsed /\ TwoSections)
    => LET lines == splitlines(g)
           hs == HeaderPositions(lines)
       IN  /\ DOMAIN g_files = {HeaderPath(lines[i]) : i \in hs}
           /\ Cardinality(DOMAIN g_files) = 2
           /\ \A i \in hs :
                 g_files[HeaderPath(lines[i])] = SectionHunks(lines, i)

\* the first half of C8 alone: exactly two keys, the two paths; holds
C8_TwoKeys ==
    (Parsed /\ TwoSections)
    => /\ DOMAIN g_files = {HeaderPath(splitlines(g)[i]) :
                               i \in HeaderPositions(splitlines(g))}
       /\ Cardinality(DOMAIN g_files) = 2

\* a parsed diff with two sections that hold a hunk each
C8_Witness ==
    /\ Parsed
    /\ TwoSections
    /\ \A p \in DOMAIN g_files : g_files[p] # <<>>

\* C9: the file score is matches / |P| over the union P of the paths, a path
\* matching exactly when it is a key of both maps with equal hunk lists.
C9_FileScoreIsExactMatchFraction ==
    (FileScored /\ (DOMAIN g_files) \cup (DOMAIN a_files) # {})
    => file_score =
          Ratio(Cardinality({p \in (DOMAIN g_files) \cap (DOMAIN a_files) :
                                g_files[p] = a_files[p]}),
                Cardinality((DOMAIN g_files) \cup (DOMAIN a_files)))

\* C10: when neither trimmed input has a "+++ b/<path>" line, the file score
\* is 1.0 if the trimmed inputs are equal and non-empty, and 0.0 otherwise.
C10_FallbackIsTextEquality ==
    (FileScored /\ HeaderPositions(splitlines(g)) = {}
        /\ HeaderPositions(splitlines(a)) = {})
    => file_score = (IF g = a /\ g # <<>> THEN One ELSE Zero)

\* two different inputs without file sections that are equal once trimmed
C10_Witness ==
    /\ FileScored
    /\ HeaderPositions(splitlines(g)) = {}
    /\ HeaderPositions(splitlines(a)) = {}
    /\ generated # actual
    /\ file_score = One

\* the function and class names, and the variable names, of all hunks of a map
AggregatedFuncs(files) ==
    UNION {UNION {extract_funcs_and_vars_from_hunk(files[p][i]).funcs :
                     i \in 1..Len(files[p])} : p \in DOMAIN files}

AggregatedVars(files) ==
    UNION {UNION {extract_funcs_and_vars_from_hunk(files[p][i]).vars :
                     i \in 1..Len(files[p])} : p \in DOMAIN files}

\* |A n B| / |A u B|, 1.0 for two empty sets, 0.0 for exactly one empty set
JaccardCoefficient(A, B) ==
    IF A = {} /\ B = {} THEN One
    ELSE IF A = {} \/ B = {} THEN Zero
    ELSE Ratio(Cardinality(A \cap B), Cardinality(A \cup B))

\* C11: the function score and the variable score are the Jaccard
\* coefficients of the two sides' aggregated identifier sets, two empty sets
\* scoring 1.0 and exactly one empty set 0.0.
C11_JaccardScores ==
    (pc = "ident_scored" \/ (pc = "done" /\ parse_calls > 0))
    => /\ func_score = JaccardCoefficient(AggregatedFuncs(g_files),
                                          AggregatedFuncs(a_files))
       /\ var_score = JaccardCoefficient(AggregatedVars(g_files),
                                         AggregatedVars(a_files))

\* one function name of two is shared, and one side only has a variable name
C11_Witness ==
    /\ pc = "ident_scored"
    /\ func_score = <<1, 2>>
    /\ var_score = Zero
    /\ AggregatedVars(g_files) = {}

\* 0.5*fs + 0.35*fn + 0.15*vs as a fraction that is not reduced
WeightedSum(fs, fn, vs) ==
    <<50 * fs[1] * fn[2] * vs[2] + 35 * fn[1] * fs[2] * vs[2]
         + 15 * vs[1] * fs[2] * fn[2],
      100 * fs[2] * fn[2] * vs[2]>>

\* x = y for fractions that need not be reduced
SameValue(x, y) == x[1] * y[2] = y[1] * x[2]

\* C12: when the inputs are not both empty, the returned score is
\* 0.5*file_score + 0.35*func_score + 0.15*var_score, a value that lies in
\* [0.0, 1.0] so that the clamp does not change it.
C12_WeightedSumUnclamped ==
    (pc = "done" /\ ~(IsBlank(generated) /\ IsBlank(actual)))
    => /\ InUnit(WeightedSum(file_score, func_score, var_score))
       /\ SameValue(result, WeightedSum(file_score, func_score, var_score))

\* a call whose three component scores are all 1.0, the largest sum
C12_Witness ==
    /\ pc = "done"
    /\ g_files # EmptyDict
    /\ file_score = One
    /\ func_score = One
    /\ var_score = One
    /\ result = One

\* C16: a hunk ends at the next hunk header, the next file header or the end
\* of input: the "--- a/<path>" line of the following file is not part of
\* the last hunk of the preceding file, whose hunks are those it has when no
\* file follows (stated for a path that has one section, with "@@" hunks).
C16_HunkEndsAtFileHeader ==
    Parsed
    => LET lines == splitlines(g)
       IN  \A i \in HeaderPositions(lines) :
              (/\ SectionEnd(lines, i) \in OldHeaderPositions(lines)
               /\ HunkStarts(lines, i + 1, SectionEnd(lines, i) - 1) # {}
               /\ \A k \in HunkStarts(lines, i + 1, SectionEnd(lines, i) - 1) :
                     IsHunkHeader(lines[k])
               /\ Cardinality({j \in HeaderPositions(lines) :
                     HeaderPath(lines[j]) = HeaderPath(lines[i])}) = 1)
              => g_files[HeaderPath(lines[i])]
                    = RegionHunks(lines, i + 1, SectionEnd(lines, i) - 1)

\* C17: every hunk text of the map starts with an "@@" line: body lines of a
\* file section before its first "@@" line start no hunk (stated for diffs
\* without "--- <path>" header lines).
C17_HunksStartWithHeader ==
    (Parsed /\ OldHeaderPositions(splitlines(g)) = {})
    => \A p \in DOMAIN g_files : \A i \in 1..Len(g_files[p]) :
          IsHunkHeader(g_files[p][i])

\* a line that is no file header, no "@@" line and no body line
IgnoredLine(ln) == HeaderMatch(ln) = 0 /\ ~IsHunkHeader(ln) /\ ~IsBodyLine(ln)

NotIgnoredLine(ln) == ~IgnoredLine(ln)

\* C19: lines that are neither a "+++ b/<path>" header, nor an "@@" line, nor
\* a body line have no effect: the map of a diff is the map of the diff
\* without them, so they end neither a file section nor a hunk.
C19_IgnoredLinesNoEffect ==
    Parsed
    => g_files = parse_file_hunks(join(SelectSeq(splitlines(g), NotIgnoredLine)))

\* an ignored line between two lines of one hunk of the map
C19_Witness ==
    /\ Parsed
    /\ LET lines == splitlines(g)
       IN  \E k \in 2..(Len(lines) - 1) :
              /\ IgnoredLine(lines[k])
              /\ \E p \in DOMAIN g_files : \E i \in 1..Len(g_files[p]) :
                    LET hl == splitlines(g_files[p][i])
                    IN  \E j \in 1..(Len(hl) - 1) :
                           hl[j] = lines[k - 1] /\ hl[j + 1] = lines[k + 1]

\* the lines of the hunk given to the extractor
HunkLines == splitlines(call_arg.str)

NotIfTimeout(ln) == ln # IfTimeout

\* C13: a marker-prefixed "def NAME(" line puts NAME in the function set
\* only, a marker-prefixed indented "NAME = value" line puts NAME in the
\* variable set only, and the line "+    if timeout == 30:" puts nothing in
\* either set, alone or next to other lines.
C13_DeclarationLines ==
    Extracted
    => /\ (\E i \in DOMAIN HunkLines : HunkLines[i] = DefHandle)
             => <<"h", "a", "n", "d", "l", "e", "_",
                  "r", "e", "q", "u", "e", "s", "t">> \in call_ret.funcs
       /\ HunkLines = <<DefHandle>>
             => /\ call_ret.funcs = {<<"h", "a", "n", "d", "l", "e", "_",
                                      "r", "e", "q", "u", "e", "s", "t">>}
                /\ call_ret.vars = {}
       /\ (\E i \in DOMAIN HunkLines : HunkLines[i] = AsgTimeout)
             => <<"t", "i", "m", "e", "o", "u", "t">> \in call_ret.vars
       /\ HunkLines = <<AsgTimeout>>
             => /\ call_ret.vars = {<<"t", "i", "m", "e", "o", "u", "t">>}
                /\ call_ret.funcs = {}
       /\ HunkLines = <<IfTimeout>>
             => call_ret.funcs = {} /\ call_ret.vars = {}
       /\ call_ret = extract_funcs_and_vars_from_hunk(
                         join(SelectSeq(HunkLines, NotIfTimeout)))

\* the declaration, the assignment and the comparison in one hunk
C13_Witness ==
    /\ Extracted
    /\ HunkLines = <<DefHandle, IfTimeout>>
    /\ Cardinality(call_ret.funcs) = 1
    /\ call_ret.vars = {}

NotCmpTimeout(ln) == ln # CmpTimeout

\* C18: only an assignment with a single "=" adds a name to the variable
\* set: the line "+timeout == 30" adds nothing to it.
C18_ComparisonAddsNoVariable ==
    Extracted
    => call_ret.vars
          = extract_funcs_and_vars_from_hunk(
                join(SelectSeq(HunkLines, NotCmpTimeout))).vars

\* a map from paths to lists of hunk texts
IsFilesMap(m) ==
    \A p \in DOMAIN m :
        /\ Len(p) > 0
        /\ \A i \in 1..Len(p) : p[i] \in WordChars \cup {".", "/"}
        /\ DOMAIN m[p] = 1..Len(m[p])
        /\ \A i \in 1..Len(m[p]) : Len(m[p][i]) > 0

\* C20: parse_file_hunks is total: for every argument the value of the call
\* is defined and is a map, the call returns it, and the map of an empty or
\* whitespace-only input is empty.
C20_ParserTotal ==
    call_fn = "parse_file_hunks"
    => /\ IsFilesMap(ParseResult(call_arg))
       /\ IsBlank(call_arg) => ParseResult(call_arg) = EmptyDict
       /\ call_pc = "returned" => call_ret = ParseResult(call_arg)

\* whitespace-only input whose lines start with a space
C20_Witness ==
    /\ ParserReturned
    /\ call_arg = Str(<<" ", "\n">>)
    /\ call_ret = EmptyDict

\* the error strings of the cases
CaseErrors == SelectSeq(errors, LAMBDA e : e[1] = "pr_")

\* the loop is over and the run has ended
RunEndedAfterLoop ==
    ev_pc \in {"returned", "raised"} /\ idx >= 1 /\ idx > Len(pr_numbers)

\* metrics.json and correct.json are written
MetricsWritten == {<<0, "metrics.json">>, <<0, "correct.json">>} \subseteq written

\* C14: a failure while processing one case is recorded as one error string
\* labelled with the case, adds no score and does not stop the loop, and the
\* run-level metrics are still written; stated for the runs in which the
\* creation of an artifact directory failed: every case has one score or one
\* error and the metrics files are written.
C14_CaseFailureIsolated ==
    (/\ RunEndedAfterLoop
     /\ \E k \in 1..Len(CaseErrors) :
           CaseErrors[k][4] \in {"Not a directory", "File exists"})
    => /\ Len(similarity_scores) + Len(CaseErrors) = Len(pr_numbers)
       /\ \A k \in 1..Len(CaseErrors) :
             \E j \in 1..Len(pr_numbers) : CaseErrors[k][2] = pr_numbers[j]
       /\ MetricsWritten

\* C15: when the program exists neither as given nor under the directory of
\* evaluate.py, the run raises before any case is listed or fetched, any
\* patch is generated, any score is computed and any file is written.
C15_UnresolvedRaisesFirst ==
    (ev_pc # "idle" /\ ~program.exists /\ ~program.alt_exists)
    => /\ ev_pc \in {"start", "raised"}
       /\ calls = <<>>
       /\ similarity_scores = <<>>
       /\ errors = <<>>
       /\ written = {}
       /\ metrics = InitialMetrics
       /\ disk \in {"absent", "dir"} /\ pr_numbers = <<>>

\* the run has raised for a relative path found in neither place
C15_Witness ==
    /\ ev_pc = "raised"
    /\ ~program.is_absolute
    /\ ~program.exists
    /\ ~program.alt_exists
    /\ calls = <<>>

\* the positions in the call log of the calls of fetch_pr_details: the
\* i-th of them opens the i-th iteration of the loop
FetchCalls == {k \in 1..Len(calls) : calls[k].fn = "fetch_pr_details"}

\* the iteration in which call k was made (0 before the loop)
CasePos(k) == Cardinality({j \in FetchCalls : j <= k})

\* the calls of score_patch_similarity that returned
ScoredCalls ==
    {k \in 1..Len(calls) :
        calls[k].fn = "score_patch_similarity" /\ calls[k].outcome = "returned"}

\* C21: when the fetch of a case fails with HTTP 403, one error string is
\* appended for that case, neither the generation nor the scoring is called
\* for it, the loop goes on with the next case, and the case adds no score.
C21_RateLimitSkipsCase ==
    \A k \in FetchCalls :
        calls[k].outcome = "raised 403"
        => LET i == CasePos(k)
               e == i - Cardinality({j \in ScoredCalls : j < k})
           IN  /\ calls[k].id = pr_numbers[i]
               /\ \A j \in 1..Len(calls) : CasePos(j) = i => j = k
               /\ idx > i
               /\ ev_pc = "raised" => idx > Len(pr_numbers)
               /\ e \in 1..Len(CaseErrors)
               /\ CaseErrors[e] = RateLimitError(pr_numbers[i])
               /\ Len(similarity_scores) = Cardinality(ScoredCalls)
               /\ Len(similarity_scores) + Len(CaseErrors) = idx - 1

\* the outcomes of the calls of generate_docs, in the order of the log
DocsOutcomes ==
    LET docs == SelectSeq(calls, LAMBDA c : c.fn = "generate_docs")
    IN  [i \in 1..Len(docs) |-> docs[i].outcome]

\* generate_docs() raised TypeError and generate_docs(None) raised too; the
\* first case was rate limited and the second was scored
C21_Witness ==
    /\ ev_pc = "returned"
    /\ DocsOutcomes = <<"raised TypeError", "raised Exception">>
    /\ Len(calls) >= 3
    /\ \E k \in FetchCalls :
          /\ calls[k].outcome = "raised 403"
          /\ CasePos(k) = 1
          /\ k < Len(calls)
          /\ calls[k + 1].fn = "fetch_pr_details"
    /\ Len(similarity_scores) = 1
    /\ Len(CaseErrors) = 1

\* the calls of score_patch_similarity, returned or not
ScoreCalls ==
    {k \in 1..Len(calls) : calls[k].fn = "score_patch_similarity"}

\* C22: score_patch_similarity is called for a case only after
\* fetch_pr_details and generate_patch_from_doc_and_pr both returned for that
\* same case, never for a case whose fetch or generation raised, and its
\* arguments are the texts those two calls returned.
C22_ScoredAfterFetchAndGeneration ==
    /\ \A k \in ScoreCalls :
          /\ k >= 3
          /\ calls[k - 2] = Call("fetch_pr_details", calls[k].id, "returned",
                                 calls[k].texts[2], NoneVal)
          /\ calls[k - 1] = Call("generate_patch_from_doc_and_pr",
                                 calls[k].id, "returned", calls[k].texts[1],
                                 NoneVal)
          /\ CasePos(k) = CasePos(k - 2)
          /\ calls[k].id = pr_numbers[CasePos(k)]
    /\ \A j \in 1..Len(calls) :
          (/\ calls[j].fn \in {"fetch_pr_details",
                               "generate_patch_from_doc_and_pr"}
           /\ calls[j].outcome # "returned")
          => \A k \in ScoreCalls : CasePos(k) # CasePos(j)

\* generate_docs() raised TypeError and generate_docs(None) returned; two
\* cases were scored with different texts, the second after the texts of
\* the first had been returned
C22_Witness ==
    /\ DocsOutcomes = <<"raised TypeError", "returned">>
    /\ Cardinality(ScoredCalls) = 2
    /\ \E k \in ScoredCalls, j \in ScoredCalls :
          /\ j < k
          /\ calls[j].texts[1] # calls[k].texts[1]
          /\ calls[j].texts[2] # calls[k].texts[2]
          /\ calls[j].id # calls[k].id

\* the product of the denominators of the first k scores of xs
DenProduct(xs, k) ==
    LET P[i \in 0..k] == IF i = 0 THEN 1 ELSE P[i - 1] * xs[i][2]
    IN  P[k]

\* the sum of the scores of xs as a numerator over DenProduct(xs, Len(xs))
NumSum(xs) ==
    LET D == DenProduct(xs, Len(xs))
        S[i \in 0..Len(xs)] ==
            IF i = 0 THEN 0 ELSE S[i - 1] + xs[i][1] * (D \div xs[i][2])
    IN  S[Len(xs)]

\* c is the arithmetic mean of the scores of xs, 0.0 when there is none
IsMeanOf(c, xs) ==
    IF xs = <<>>
    THEN c = Zero
    ELSE /\ c[2] > 0
         /\ GCD(c[1], c[2]) = 1
         /\ c[1] * DenProduct(xs, Len(xs)) * Len(xs) = NumSum(xs) * c[2]

\* the scores the scorings of the run returned, in the order of the calls
ScoresInOrder ==
    LET ks == ScoredCalls
        nth[i \in 1..Cardinality(ks)] ==
            CHOOSE k \in ks : Cardinality({j \in ks : j < k}) = i - 1
    IN  [i \in 1..Cardinality(ks) |-> calls[nth[i]].score]

\* C23: the combined_score written by the run is the arithmetic mean of the
\* scores in per_pr_similarity, which are the scores of the cases that were
\* scored in processing order, and it is 0.0 when no case was scored.
C23_CombinedIsMean ==
    (ev_pc = "returned" /\ <<0, "metrics.json">> \in written)
    => /\ metrics.per_pr_similarity = ScoresInOrder
       /\ IsMeanOf(metrics.combined_score, metrics.per_pr_similarity)

\* both calls of generate_docs raised; of two cases one failed and one was
\* scored above zero: the mean is that score, not half of it
C23_Witness ==
    /\ ev_pc = "returned"
    /\ DocsOutcomes = <<"raised TypeError", "raised Exception">>
    /\ <<0, "metrics.json">> \in written
    /\ Len(pr_numbers) = 2
    /\ Len(metrics.per_pr_similarity) = 1
    /\ metrics.combined_score = metrics.per_pr_similarity[1]
    /\ metrics.combined_score # Zero

\* no case was scored and the combined score written is 0.0
C23_WitnessNoScore ==
    /\ ev_pc = "returned"
    /\ <<0, "metrics.json">> \in written
    /\ pr_numbers # <<>>
    /\ metrics.per_pr_similarity = <<>>
    /\ metrics.combined_score = Zero

\* the iterations of the loop that are over
Processed == 1..(idx - 1)

\* the iterations whose scoring returned
ScoredCases == {CasePos(k) : k \in ScoredCalls}

\* every iteration that is over has one outcome: a score when its scoring
\* returned, and otherwise the error string at its place among the per-case
\* errors, labelled with its identifier
OneOutcomePerCase ==
    /\ ScoredCases \subseteq Processed
    /\ Len(similarity_scores) = Cardinality(ScoredCases)
    /\ Len(CaseErrors) = Cardinality(Processed \ ScoredCases)
    /\ \A i \in Processed \ ScoredCases :
          LET e == Cardinality({j \in Processed \ ScoredCases : j <= i})
          IN  CaseErrors[e][2] = pr_numbers[i]

\* the loop is over
LoopEnded == ev_pc \in {"loop", "returned", "raised"} /\ idx > Len(pr_numbers)

\* C24: at every point of the loop each case processed so far has produced
\* exactly one outcome, a score or an error string labelled with its
\* identifier; after the loop the scores and the per-case errors together
\* are as many as the cases of the list, which are at most num_prs (stated
\* for the runs that had a case to process).
C24_OneOutcomePerCase ==
    idx >= 1
    => /\ OneOutcomePerCase
       /\ (LoopEnded /\ pr_numbers # <<>>)
          => /\ Len(similarity_scores) + Len(CaseErrors) = Len(pr_numbers)
             /\ Len(pr_numbers) <= num_prs

\* C24 without the bound by num_prs: holds for every num_prs
C24_OutcomesWithoutBound ==
    idx >= 1
    => /\ OneOutcomePerCase
       /\ LoopEnded
          => Len(similarity_scores) + Len(CaseErrors) = Len(pr_numbers)

\* C24 for a num_prs that is not negative
C24_OutcomesForCounts ==
    (idx >= 1 /\ num_prs >= 0) => C24_OneOutcomePerCase

\* C25: with forced refetch off, once a call fetch_pr_details(n) has fetched
\* from the network and written its cache entry, every later call for n
\* returns the same (body, files, diff text) from the cache without any
\* network request; and when a request fails with HTTP 403 while a readable
\* cache entry for n exists, the cached triple is returned, not the error.
C25_CacheServesLaterCalls ==
    fetch_count >= 1 /\ last_fetch.pr_number # 0
    => /\ (~CACHE_FORCE /\ last_fetch.earlier # {})
          => /\ last_fetch.outcome = "returned"
             /\ \A t \in last_fetch.earlier : last_fetch.value = t
             /\ last_fetch.requests = 0
       /\ (/\ last_fetch.status = 403
           /\ Exists(last_fetch.found)
           /\ Readable(last_fetch.found))
          => /\ last_fetch.outcome = "returned"
             /\ last_fetch.value = CachedTriple(last_fetch.found)

\* C25 for the cases no two calls of which were ever under way together:
\* holds
C25_WithoutOverlap ==
    (fetch_count >= 1 /\ last_fetch.pr_number # 0 /\ ~last_fetch.raced)
    => C25_CacheServesLaterCalls

\* the second half of C25 alone: holds with overlapping calls too
C25_ForbiddenUsesCache ==
    (/\ fetch_count >= 1
     /\ last_fetch.status = 403
     /\ Exists(last_fetch.found)
     /\ Readable(last_fetch.found))
    => /\ last_fetch.outcome = "returned"
       /\ last_fetch.value = CachedTriple(last_fetch.found)

\* a call that began after a fetch had written the entry, no overlap,
\* refetch not forced, returning a triple with two files and a diff
C25_ReachedCached ==
    /\ ~CACHE_FORCE
    /\ ~last_fetch.raced
    /\ last_fetch.earlier # {}
    /\ last_fetch.outcome = "returned"
    /\ last_fetch.requests = 0
    /\ Len(last_fetch.value.files) = 2

\* the paths of all_paths
Paths == {all_paths[i] : i \in 1..Len(all_paths)}

\* C26: for every reply of the model ask_llm_to_select_files returns only
\* members of all_paths: the JSON array of the reply filtered to the
\* members of all_paths, possibly empty, or all_paths itself when no JSON
\* array was parsed from the reply.
C26_OnlyKnownPaths ==
    ask_pc = "returned"
    => LET p == Picks(Content(res))
       IN  /\ \A i \in 1..Len(picked) : picked[i] \in Paths
           /\ IF p.ok /\ p.val.t = "list"
              THEN /\ Len(picked) <= Len(p.val.items)
                   /\ \E f \in [1..Len(picked) -> 1..Len(p.val.items)] :
                         /\ \A i \in 1..Len(picked) :
                               /\ p.val.items[f[i]].t = "str"
                               /\ p.val.items[f[i]].s = picked[i]
                         /\ \A i, j \in 1..Len(picked) : i < j => f[i] < f[j]
                         /\ \A k \in 1..Len(p.val.items) :
                               (/\ p.val.items[k].t = "str"
                                /\ p.val.items[k].s \in Paths)
                               => \E i \in 1..Len(picked) : f[i] = k
              ELSE picked = all_paths

\* the array was taken out of a reply with words around it, and of its
\* three names the one that is no path was dropped
C26_Witness ==
    /\ ask_pc = "returned"
    /\ ~json_loads(Content(res)).ok
    /\ Picks(Content(res)).ok
    /\ Len(Picks(Content(res)).val.items) = 3
    /\ picked = <<<<"b">>, <<"b">>>>
    /\ all_paths = <<<<"a">>, <<"b">>>>

====
